---- MODULE Spec2Model ----
(***************************************************************************)
(* Model of the POI testing row-processing engine: the job store, the      *)
(* work-dispatch queue, the job-control endpoints (pause / resume /        *)
(* cancel) and the worker's processJob with its row loop, CSV parser       *)
(* events and 'end' handler.                                               *)
(*                                                                         *)
(* One job is modelled.  Text values (ids, error texts) are sequences of   *)
(* one-character strings so that trimming, comma stripping, lower-casing   *)
(* and substring search are computed as the code computes them.            *)
(***************************************************************************)
EXTENDS Integers, Sequences, FiniteSets, TLC

\* ------------------------------------------------------------------------
\* Bounds of the model
\* ------------------------------------------------------------------------
\* longest input file, in records
MaxRows == 2
\* processJob invocations the model has room for
MaxRuns == 2
\* largest worker pool (WORKER_CONCURRENCY) explored
MaxWorkers == 2

\* ------------------------------------------------------------------------
\* Program constants
\* ------------------------------------------------------------------------
\* process.env.WORKER_CONCURRENCY || '1': default size of the worker pool
DefaultConcurrency == 1

\* parseInt(process.env.RETRY_MAX_ATTEMPTS || '2')
DefaultRetryMaxAttempts == 2

\* values of configuration.retry_max_attempts that are modelled
RetryMaxAttemptsValues == {0, DefaultRetryMaxAttempts}

JobModes == {"QUOTE_ONLY", "QUOTE_START_STOP"}

JobStatuses ==
  {"QUEUED", "RUNNING", "PAUSED", "CANCELLING", "CANCELLED", "FAILED", "COMPLETED"}

\* SQL NULL / JS null for numeric columns
Null == -1

\* ------------------------------------------------------------------------
\* Text helpers (JS string operations on character sequences)
\* ------------------------------------------------------------------------
\* JS falsy test for strings: undefined, null and '' are all falsy
NoText == <<>>

IsSpace(c) == c = " "

RECURSIVE TrimLeft(_)
TrimLeft(s) ==
  IF s = <<>> THEN <<>>
  ELSE IF IsSpace(Head(s)) THEN TrimLeft(Tail(s)) ELSE s

RECURSIVE TrimRight(_)
TrimRight(s) ==
  IF s = <<>> THEN <<>>
  ELSE IF IsSpace(s[Len(s)]) THEN TrimRight(SubSeq(s, 1, Len(s) - 1)) ELSE s

\* String.prototype.trim
Trim(s) == TrimRight(TrimLeft(s))

\* value.replace(/,/g, '')
RECURSIVE StripCommas(_)
StripCommas(s) ==
  IF s = <<>> THEN <<>>
  ELSE IF Head(s) = "," THEN StripCommas(Tail(s))
       ELSE <<Head(s)>> \o StripCommas(Tail(s))

LowerChar(c) ==
  CASE c = "A" -> "a" [] c = "B" -> "b" [] c = "C" -> "c" [] c = "D" -> "d"
    [] c = "E" -> "e" [] c = "F" -> "f" [] c = "G" -> "g" [] c = "H" -> "h"
    [] c = "I" -> "i" [] c = "J" -> "j" [] c = "K" -> "k" [] c = "L" -> "l"
    [] c = "M" -> "m" [] c = "N" -> "n" [] c = "O" -> "o" [] c = "P" -> "p"
    [] c = "Q" -> "q" [] c = "R" -> "r" [] c = "S" -> "s" [] c = "T" -> "t"
    [] c = "U" -> "u" [] c = "V" -> "v" [] c = "W" -> "w" [] c = "X" -> "x"
    [] c = "Y" -> "y" [] c = "Z" -> "z"
    [] OTHER -> c

\* String.prototype.toLowerCase
ToLowerCase(s) == [i \in 1..Len(s) |-> LowerChar(s[i])]

\* String.prototype.includes
Includes(s, sub) ==
  \E i \in 1..(Len(s) - Len(sub) + 1) : SubSeq(s, i, i + Len(sub) - 1) = sub

Digit(d) ==
  CASE d = 0 -> "0" [] d = 1 -> "1" [] d = 2 -> "2" [] d = 3 -> "3"
    [] d = 4 -> "4" [] d = 5 -> "5" [] d = 6 -> "6" [] d = 7 -> "7"
    [] d = 8 -> "8" [] d = 9 -> "9"

\* decimal rendering of a status code inside a template string
RECURSIVE NumText(_)
NumText(n) ==
  IF n < 10 THEN <<Digit(n)>> ELSE NumText(n \div 10) \o <<Digit(n % 10)>>

\* `HTTP ${status}`
HttpText(status) == <<"H", "T", "T", "P", " ">> \o NumText(status)

\* ------------------------------------------------------------------------
\* shared utils: cleanId / parseCSVRow / hasRequiredFields
\* ------------------------------------------------------------------------
\* (variant: commas are kept)
cleanIdTrimOnly(value) ==
  IF value = NoText THEN NoText
  ELSE Trim(value)

\* cleanId: null for a falsy value, else trim, strip commas, '' -> null.
\* The empty sequence stands for null (cleanId never returns '').
cleanId(value) ==
  IF value = NoText THEN NoText
  ELSE StripCommas(Trim(value))

\* a || b on strings
OrElse(a, b) == IF a # NoText THEN a ELSE b

parseCSVRow(row) ==
  [ rid   |-> cleanId(OrElse(row.rid, row.location_id)),
    zone  |-> cleanId(OrElse(row.zone, row.parking_payment_zone_id)),
    space |-> cleanId(OrElse(row.space, row.location_space_id)) ]

hasRequiredFields(row) == row.rid # NoText \/ row.zone # NoText

\* raw CSV records the input file is built from
RawRow(rid, locationId, zone, zoneAlias, space) ==
  [ rid |-> rid, location_id |-> locationId,
    zone |-> zone, parking_payment_zone_id |-> zoneAlias,
    space |-> space, location_space_id |-> <<>> ]

\* rid "1,2": valid after cleaning
RowRid == RawRow(<<"1", ",", "2">>, <<>>, <<>>, <<>>, <<>>)
\* rid " , " and nothing else: cleans to null, fails validation
RowBlank == RawRow(<<" ", ",", " ">>, <<>>, <<>>, <<>>, <<"2">>)

RowSamples == {RowRid, RowBlank}

\* all sequences over S with length 0..n
RECURSIVE SeqsUpTo(_, _)
SeqsUpTo(S, n) ==
  IF n = 0 THEN {<<>>}
  ELSE LET shorter == SeqsUpTo(S, n - 1)
       IN shorter \cup {Append(s, x) : s \in {t \in shorter : Len(t) = n - 1}, x \in S}


\* ------------------------------------------------------------------------
\* External API replies and ParkopediaAPIClient
\* ------------------------------------------------------------------------
\* "Network error"
NetworkErrorText == <<"N", "e", "t", "w", "o", "r", "k", " ", "e", "r", "r", "o", "r">>
\* "No payment ID in response"
NoPaymentIdText ==
  <<"N", "o", " ", "p", "a", "y", "m", "e", "n", "t", " ", "I", "D", " ",
    "i", "n", " ", "r", "e", "s", "p", "o", "n", "s", "e">>
\* "Unknown error"
UnknownErrorText ==
  <<"U", "n", "k", "n", "o", "w", "n", " ", "e", "r", "r", "o", "r">>
\* "Service invoked too many times" (vendor throttling phrase)
ServiceInvokedText ==
  <<"S", "e", "r", "v", "i", "c", "e", " ", "i", "n", "v", "o", "k", "e", "d", " ",
    "t", "o", "o", " ", "m", "a", "n", "y", " ", "t", "i", "m", "e", "s">>

\* What fetch() yields: either it throws (network = TRUE, message) or a
\* response with a status, the error embedded in the JSON body (if any), the
\* raw body text of a non-JSON body, and the payment id (if any).
HttpReply(status, error, text, id) ==
  [network |-> FALSE, message |-> NoText, status |-> status,
   error |-> error, text |-> text, id |-> id]

NetworkFailure(message) ==
  [network |-> TRUE, message |-> message, status |-> 0,
   error |-> NoText, text |-> NoText, id |-> NoText]

\* response.ok
ResponseOk(status) == status >= 200 /\ status <= 299

requestQuote(reply) ==
  IF reply.network
  THEN [status |-> 0, error |-> OrElse(reply.message, NetworkErrorText)]
  ELSE IF reply.error # NoText
  THEN [status |-> reply.status, error |-> reply.error]
  ELSE IF ~ResponseOk(reply.status)
  THEN [status |-> reply.status, error |-> OrElse(reply.text, HttpText(reply.status))]
  ELSE [status |-> reply.status, error |-> NoText]

startPayment(reply) ==
  IF reply.network
  THEN [status |-> 0, error |-> OrElse(reply.message, NetworkErrorText), paymentId |-> NoText]
  ELSE IF reply.error # NoText
  THEN [status |-> reply.status, error |-> reply.error, paymentId |-> NoText]
  ELSE IF ~ResponseOk(reply.status)
  THEN [status |-> reply.status, error |-> OrElse(reply.text, HttpText(reply.status)),
        paymentId |-> NoText]
  ELSE IF reply.id = NoText
  THEN [status |-> reply.status, error |-> NoPaymentIdText, paymentId |-> NoText]
  ELSE [status |-> reply.status, error |-> NoText, paymentId |-> reply.id]

stopPayment(reply) ==
  IF reply.network
  THEN [status |-> 0, error |-> OrElse(reply.message, NetworkErrorText)]
  ELSE IF reply.error # NoText
  THEN [status |-> reply.status, error |-> reply.error]
  ELSE IF ~ResponseOk(reply.status)
  THEN [status |-> reply.status, error |-> OrElse(reply.text, HttpText(reply.status))]
  ELSE [status |-> reply.status, error |-> NoText]

\* the buffer of getToken: 300000 ms
TokenBufferMs == 300000

\* (data.expires_in || 3600): seconds assumed when the reply names none
DefaultExpiresIn == 3600

\* a client right after construction: token = null, tokenExpiresAt = null
\* (both falsy, as '' and 0 are)
NoCache == [token |-> NoText, tokenExpiresAt |-> 0]

\* what the token request yields: fetch() throws (network = TRUE), or a
\* response with a status, a body that is a JSON object or not, the
\* access_token and the expires_in it names (none: NoText, 0), and the time
\* that passed until the body was read
TokenReply(status, json, accessToken, expiresIn, elapsed) ==
  [network |-> FALSE, status |-> status, json |-> json,
   access_token |-> accessToken, expires_in |-> expiresIn, elapsed |-> elapsed]

TokenNetworkFailure ==
  [network |-> TRUE, status |-> 0, json |-> FALSE,
   access_token |-> NoText, expires_in |-> 0, elapsed |-> 0]

\* (variant: the token is used up to its expiry)
getTokenNoBuffer(cache, now, reply) ==
  IF cache.token # NoText /\ cache.tokenExpiresAt # 0 /\ now < cache.tokenExpiresAt
  THEN [threw |-> FALSE, token |-> cache.token, requests |-> 0, cache |-> cache]
  ELSE IF reply.network \/ ~ResponseOk(reply.status) \/ ~reply.json
  THEN [threw |-> TRUE, token |-> NoText, requests |-> 1, cache |-> cache]
  ELSE [threw |-> FALSE, token |-> reply.access_token, requests |-> 1,
        cache |-> [token |-> reply.access_token,
                   tokenExpiresAt |-> now + reply.elapsed
                     + (IF reply.expires_in # 0 THEN reply.expires_in
                        ELSE DefaultExpiresIn) * 1000]]

\* getToken at time `now` (Date.now() of its first line) on a client with
\* this cache, its token request (if it makes one) answered by `reply`:
\* whether it threw, the token returned, the token requests made and the
\* cache it leaves.  fetch() throwing, a response that is not ok and a body
\* response.json() rejects all leave getToken before the two assignments.
getToken(cache, now, reply) ==
  IF cache.token # NoText /\ cache.tokenExpiresAt # 0
       /\ now < cache.tokenExpiresAt - TokenBufferMs
  THEN [threw |-> FALSE, token |-> cache.token, requests |-> 0, cache |-> cache]
  ELSE IF reply.network \/ ~ResponseOk(reply.status) \/ ~reply.json
  THEN [threw |-> TRUE, token |-> NoText, requests |-> 1, cache |-> cache]
  ELSE [threw |-> FALSE, token |-> reply.access_token, requests |-> 1,
        cache |-> [token |-> reply.access_token,
                   tokenExpiresAt |-> now + reply.elapsed
                     + (IF reply.expires_in # 0 THEN reply.expires_in
                        ELSE DefaultExpiresIn) * 1000]]

\* the request of an operation once it holds a token
ClientRequest(op, reply) ==
  CASE op = "quote" -> requestQuote(reply)
    [] op = "start" -> startPayment(reply)
    [] op = "stop"  -> stopPayment(reply)

\* outcome of one invocation of a client operation
Resolved(value) == [threw |-> FALSE, value |-> value]
Rejected == [threw |-> TRUE, value |-> <<>>]

\* (variant: a failed fetch leaves the operation as an exception)
ClientCallRethrowing(op, cache, now, tokenReply, reply) ==
  LET t == getToken(cache, now, tokenReply)
  IN IF t.threw \/ reply.network THEN Rejected
     ELSE Resolved(ClientRequest(op, reply))

\* requestQuote / startPayment / stopPayment: `await this.getToken()`
\* stands before the try block, and so does requestQuote's log line with
\* token.substring(0, 20), which throws when getToken returned undefined
\* (a token reply without access_token); whatever happens after that is
\* returned as a value
ClientCall(op, cache, now, tokenReply, reply) ==
  LET t == getToken(cache, now, tokenReply)
  IN IF t.threw THEN Rejected
     ELSE IF op = "quote" /\ t.token = NoText THEN Rejected
     ELSE Resolved(ClientRequest(op, reply))

\* replies of the remote API used by the job-level model
QuoteReplies ==
  { HttpReply(201, NoText, NoText, NoText),
    HttpReply(404, NoText, NoText, NoText),
    HttpReply(200, ServiceInvokedText, NoText, NoText) }

StartReplies ==
  { HttpReply(201, NoText, NoText, <<"7">>),
    HttpReply(201, NoText, NoText, NoText) }

StopReplies ==
  { HttpReply(204, NoText, NoText, NoText),
    HttpReply(404, NoText, NoText, NoText) }

\* ------------------------------------------------------------------------
\* worker: retryWithBackoff / isRateLimited
\* ------------------------------------------------------------------------
\* 2^n
RECURSIVE Pow2(_)
Pow2(n) == IF n <= 0 THEN 1 ELSE 2 * Pow2(n - 1)

\* (variant: the default predicate, () => true)
IsRetryableAlways(error) == TRUE

\* the predicate every call site passes: status >= 500 || status === 0,
\* with status = error?.status || 0
IsRetryableError(error) == error.status >= 500 \/ error.status = 0

\* the value of `lastError` when the loop body never ran
Undefined == [status |-> 0, message |-> NoText, undefined |-> TRUE]

\* an Error thrown by the operation
Thrown(message) == [status |-> 0, message |-> message, undefined |-> FALSE]

\* outcome of one invocation of fn
Returned(value) == [threw |-> FALSE, value |-> value, error |-> Undefined]
Raised(error) == [threw |-> TRUE, value |-> <<>>, error |-> error]

\* retryWithBackoff from attempt `attempt` on; outcomes[i] is what the i-th
\* invocation of fn does.  Yields whether it threw, the value or error, the
\* number of invocations of fn and the sequence of sleeps.
RECURSIVE RetryLoop(_, _, _, _, _, _)
RetryLoop(attempt, outcomes, maxAttempts, backoffMs, calls, sleeps) ==
  IF attempt > maxAttempts
  THEN [threw |-> TRUE, value |-> <<>>, error |-> Undefined,
        calls |-> calls, sleeps |-> sleeps]
  ELSE LET o == outcomes[attempt] IN
       IF ~o.threw
       THEN [threw |-> FALSE, value |-> o.value, error |-> Undefined,
             calls |-> calls + 1, sleeps |-> sleeps]
       ELSE IF attempt < maxAttempts /\ IsRetryableError(o.error)
       THEN RetryLoop(attempt + 1, outcomes, maxAttempts, backoffMs, calls + 1,
                      Append(sleeps, backoffMs * Pow2(attempt - 1)))
       ELSE [threw |-> TRUE, value |-> <<>>, error |-> o.error,
             calls |-> calls + 1, sleeps |-> sleeps]

\* (variant: a result that carries an error is retried to the last attempt)
retryWithBackoffOnResults(outcomes, maxAttempts, backoffMs) ==
  LET r == RetryLoop(1, outcomes, maxAttempts, backoffMs, 0, <<>>)
  IN IF ~r.threw /\ r.value.error # NoText /\ maxAttempts > 1
     THEN [r EXCEPT !.calls = maxAttempts,
                    !.sleeps = [k \in 1..(maxAttempts - 1) |-> backoffMs * Pow2(k - 1)]]
     ELSE r

retryWithBackoff(outcomes, maxAttempts, backoffMs) ==
  RetryLoop(1, outcomes, maxAttempts, backoffMs, 0, <<>>)

\* the same outcome on every attempt
Always(outcome, maxAttempts) ==
  [i \in 1..(IF maxAttempts > 1 THEN maxAttempts ELSE 1) |-> outcome]

RateLimitText == <<"r", "a", "t", "e", " ", "l", "i", "m", "i", "t">>
TooManyRequestsText ==
  <<"t", "o", "o", " ", "m", "a", "n", "y", " ", "r", "e", "q", "u", "e", "s", "t", "s">>
Text429 == <<"4", "2", "9">>
ServiceInvokedLower == ToLowerCase(ServiceInvokedText)

\* (variant: the text is matched as it is, without toLowerCase)
isRateLimitedCaseSensitive(error) ==
  IF error = NoText THEN FALSE
  ELSE \/ Includes(error, RateLimitText)
       \/ Includes(error, TooManyRequestsText)
       \/ Includes(error, Text429)
       \/ Includes(error, ServiceInvokedLower)

isRateLimited(error) ==
  IF error = NoText THEN FALSE
  ELSE LET lower == ToLowerCase(error) IN
       \/ Includes(lower, RateLimitText)
       \/ Includes(lower, TooManyRequestsText)
       \/ Includes(lower, Text429)
       \/ Includes(lower, ServiceInvokedLower)


\* ------------------------------------------------------------------------
\* worker: processing of one valid row (quote, then start / stop in mode B)
\* ------------------------------------------------------------------------
\* configuration.retry_backoff_ms (default)
RetryBackoffMs == 1000

\* configuration.rate_limit_backoff_ms (default)
RateLimitBackoffMs == 60000

\* a retryWithBackoff call site: try { result = await retryWithBackoff(..) }
\* catch (error) { result = { status: 0, error: error.message || 'Unknown error' } }.
\* `escaped` is TRUE when the catch clause itself throws: error is undefined
\* (the retry loop never ran), so reading error.message raises a TypeError.
CallSite(result, maxAttempts) ==
  LET r == retryWithBackoff(Always(Returned(result), maxAttempts), maxAttempts,
                            RetryBackoffMs)
  IN IF ~r.threw
     THEN [escaped |-> FALSE, calls |-> r.calls, sleeps |-> r.sleeps, result |-> r.value]
     ELSE IF r.error.undefined
     THEN [escaped |-> TRUE, calls |-> r.calls, sleeps |-> r.sleeps, result |-> result]
     ELSE [escaped |-> FALSE, calls |-> r.calls, sleeps |-> r.sleeps,
           result |-> [result EXCEPT !.status = 0,
                                     !.error = OrElse(r.error.message, UnknownErrorText)]]

\* (variant: the status alone decides)
QuoteOkByStatus(q) == q.status \in {200, 201}

\* quoteResult.status === 200 || 201, and no error
QuoteOk(q) == q.status \in {200, 201} /\ q.error = NoText

\* (variant: the status alone lets stop be attempted)
StartAcceptedByStatus(s) == s.status \in {200, 201}

\* the condition under which stop is attempted
StartAccepted(s) == s.status \in {200, 201} /\ s.paymentId # NoText /\ s.error = NoText

\* the condition under which a stop result logs a 'stop' Job Error
StopFailed(p) == p.error # NoText \/ p.status \notin {200, 201, 204}

\* (variant: a start error and a stop error are each logged on their own)
RowJobErrorsIndependent(quoteOk, doStart, doStop, startResult, stopResult) ==
  (IF ~quoteOk THEN <<"quote">> ELSE <<>>)
  \o (IF doStart /\ startResult.error # NoText THEN <<"start">> ELSE <<>>)
  \o (IF doStart /\ StopFailed(stopResult) THEN <<"stop">> ELSE <<>>)

\* the addJobError calls of the row body, in order: 'quote' if the quote
\* failed; in mode B either the stop branch, which logs 'stop' for a failed
\* stop, or `else if (startResult.error)`, which logs 'start'
RowJobErrors(quoteOk, doStart, doStop, startResult, stopResult) ==
  (IF ~quoteOk THEN <<"quote">> ELSE <<>>)
  \o (IF doStart /\ ~doStop /\ startResult.error # NoText THEN <<"start">> ELSE <<>>)
  \o (IF doStop /\ StopFailed(stopResult) THEN <<"stop">> ELSE <<>>)

NoResult == [status |-> Null, error |-> NoText, paymentId |-> NoText]

\* n times the same item
Repeat(x, n) == [i \in 1..n |-> x]

\* `status || null`: 0 is falsy
StatusOrNull(status) == IF status = 0 THEN Null ELSE status

\* `error || \`HTTP ${status}\``
ErrorOrHttp(res) == OrElse(res.error, HttpText(res.status))

\* Effect of the row body after validation, for a row whose parsed ids pass
\* hasRequiredFields: counters to add, Job Errors to log (in order), external
\* calls issued (their number per operation, the order of their issue, the
\* payment id the stop call is keyed by, the sleeps of the retry loops), the
\* sleeps of the row body outside the retry loops (the rate-limit backoff;
\* request_delay_ms is unset), and the Row Result (`line`: the flags the
\* results artifact is followed by; `resultRow`: its outcome columns).
\* escaped = TRUE when an exception left the body before any counter was
\* changed.
ProcessRow(jobMode, maxAttempts, quoteReply, startReply, stopReply) ==
  LET q       == CallSite(requestQuote(quoteReply), maxAttempts)
      quoteOk == QuoteOk(q.result)
      rate    == ~quoteOk /\ isRateLimited(q.result.error)
      doStart == jobMode = "QUOTE_START_STOP" /\ quoteOk
      s       == CallSite(startPayment(startReply), maxAttempts)
      doStop  == doStart /\ StartAccepted(s.result)
      p       == CallSite(stopPayment(stopReply), maxAttempts)
      startRes == IF doStart THEN s.result ELSE NoResult
      stopRes  == IF doStop THEN p.result ELSE NoResult
      startOk  == startRes.status \in {200, 201} /\ startRes.error = NoText
      stopOk   == stopRes.status \in {200, 201, 204} /\ stopRes.error = NoText
  IN [ escaped |-> q.escaped,
       success |-> IF quoteOk THEN 1 ELSE 0,
       error   |-> IF quoteOk THEN 0 ELSE 1,
       rateLimited |-> IF rate THEN 1 ELSE 0,
       sleeps  |-> IF rate THEN <<RateLimitBackoffMs>> ELSE <<>>,
       errors  |-> RowJobErrors(quoteOk, doStart, doStop, s.result, p.result),
       calls   |-> [ quote |-> q.calls,
                     start |-> IF doStart THEN s.calls ELSE 0,
                     stop  |-> IF doStop THEN p.calls ELSE 0 ],
       issued  |-> Repeat("quote", q.calls)
                   \o (IF doStart THEN Repeat("start", s.calls) ELSE <<>>)
                   \o (IF doStop THEN Repeat("stop", p.calls) ELSE <<>>),
       stopKey |-> IF doStop THEN s.result.paymentId ELSE NoText,
       retrySleeps |-> q.sleeps \o (IF doStart THEN s.sleeps ELSE <<>>)
                                \o (IF doStop THEN p.sleeps ELSE <<>>),
       line    |-> [ quote_ok |-> quoteOk, start_ok |-> startOk, stop_ok |-> stopOk ],
       resultRow |->
         [ quote_status_code |-> q.result.status,
           quote_ok |-> quoteOk,
           quote_error |-> IF quoteOk THEN NoText ELSE ErrorOrHttp(q.result),
           start_status_code |-> StatusOrNull(startRes.status),
           start_ok |-> startOk,
           payment_id |-> startRes.paymentId,
           start_error |-> IF startOk THEN NoText ELSE startRes.error,
           stop_status_code |-> StatusOrNull(stopRes.status),
           stop_ok |-> stopOk,
           stop_error |-> IF stopOk THEN NoText ELSE stopRes.error ] ]

\* ProcessRow tabulated over the replies used by the job-level model
RowEffects ==
  [ m \in JobModes, a \in RetryMaxAttemptsValues,
    q \in QuoteReplies, s \in StartReplies, p \in StopReplies |->
      ProcessRow(m, a, q, s, p) ]

\* parseCSVRow / hasRequiredFields tabulated over the records of the input
RowIsValid == [ row \in RowSamples |-> hasRequiredFields(parseCSVRow(row)) ]

\* ------------------------------------------------------------------------
\* job store (db): the jobs row and the operations on it
\* ------------------------------------------------------------------------
\* every UPDATE names the row by `WHERE id = $n`: it changes nothing once
\* the row is deleted
updateJobStatus(j, status, hasMessage) ==
  IF j.deleted THEN j
  ELSE [j EXCEPT !.status = status, !.error_message = hasMessage]

\* progress is a record holding just the columns to set; checkpoint is Null
\* when the argument is omitted
updateJobProgress(j, progress, checkpoint) ==
  IF j.deleted THEN j
  ELSE [f \in DOMAIN j |->
          IF f \in DOMAIN progress THEN progress[f]
          ELSE IF f = "checkpoint_offset" /\ checkpoint # Null THEN checkpoint
          ELSE j[f]]

setJobStarted(j) == IF j.deleted THEN j ELSE [j EXCEPT !.status = "RUNNING"]

setJobFinished(j, status) == IF j.deleted THEN j ELSE [j EXCEPT !.status = status]

setJobResults(j) ==
  IF j.deleted THEN j ELSE [j EXCEPT !.results_path = TRUE, !.summary_path = TRUE]

\* DELETE FROM jobs WHERE id = $1: the row is gone (`deleted`; its columns
\* keep the values it was deleted with)
deleteJob(j) == [j EXCEPT !.deleted = TRUE]

\* the jobs row right after POST /api/jobs
createJob(jobMode, maxAttempts) ==
  [ status |-> "QUEUED", mode |-> jobMode, retry_max_attempts |-> maxAttempts,
    total_rows_estimated |-> Null, rows_processed |-> 0, success_count |-> 0,
    error_count |-> 0, rate_limited_count |-> 0,
    results_path |-> FALSE, summary_path |-> FALSE,
    checkpoint_offset |-> Null, error_message |-> FALSE, deleted |-> FALSE ]

\* ------------------------------------------------------------------------
\* results artifact: lines written through per-run file handles
\* ------------------------------------------------------------------------
\* a line no handle has written (gap left by a handle positioned past the end)
Hole == [row_number |-> 0, quote_ok |-> FALSE, start_ok |-> FALSE, stop_ok |-> FALSE]

ResultLine(rowNumber, line) ==
  [row_number |-> rowNumber, quote_ok |-> line.quote_ok,
   start_ok |-> line.start_ok, stop_ok |-> line.stop_ok]

\* resultsFileHandle.writeFile: write one line at the handle's position
WriteAt(f, pos, line) ==
  IF pos < Len(f) THEN [f EXCEPT ![pos + 1] = line]
  ELSE f \o [i \in 1..(pos - Len(f)) |-> Hole] \o <<line>>


\* ------------------------------------------------------------------------
\* State
\* ------------------------------------------------------------------------
VARIABLES
  job,        \* the jobs row in the job store
  jobQueue,   \* waiting entries of the 'job-processing' queue
  file,       \* the uploaded CSV: sequence of raw records
  run,        \* per processJob invocation: its locals and positions
  results,    \* the results artifact (ndjson lines)
  summary,    \* the summary artifact, NoSummary until written
  jobErrors,  \* the job_errors table: <<row_number, error_type>> in order
  apiCalls,   \* external calls issued so far, per operation
  http,       \* the job-control request in flight / last answered
  pool,       \* the worker pool: its size (WORKER_CONCURRENCY)
  probe       \* a unit under examination: its input and, once applied, its output

vars == <<job, jobQueue, file, run, results, summary, jobErrors, apiCalls, http, pool, probe>>

Runs == 1..MaxRuns

JobId == "job"

NoSummary == [written |-> FALSE, processed |-> 0, successes |-> 0, errors |-> 0,
              rate_limited |-> 0]

NoRow == RawRow(<<>>, <<>>, <<>>, <<>>, <<>>)

\* a processJob invocation that has not been dispatched
NoRun ==
  [ pc |-> "none", settled |-> FALSE,
    rowNumber |-> 0, successCount |-> 0, errorCount |-> 0, rateLimitedCount |-> 0,
    totalRows |-> 0, processing |-> FALSE, rowQueue |-> <<>>, row |-> NoRow,
    rpc |-> "idle", parser |-> "none", emitted |-> 0, epc |-> "none",
    handle |-> "none", pos |-> 0, fatal |-> FALSE ]

NoRequest == [op |-> "none", state |-> "idle"]

\* no unit is under examination
NoProbe == [fn |-> "none", arg |-> <<>>, done |-> FALSE, out |-> <<>>]

\* a reply (200 or 400) is gone once it has been sent: it is visible in the
\* state its handler step leads to and in no later one
Delivered(h) == IF h.state \in {"ok", "rejected"} THEN NoRequest ELSE h

\* processJob's promise is pending: the queue entry is still locked
Active(r) == run[r].pc # "none" /\ ~run[r].settled

\* a settled invocation none of whose callbacks can ever act again: it
\* returned early, or its 'end' handler finished, or its parser is paused /
\* destroyed with the row loop left, or its 'end' handler polls a queue that
\* nobody drains
Finished(rn) ==
  /\ rn.settled
  /\ \/ rn.pc = "done"
     \/ rn.epc = "done"
     \/ rn.rpc \in {"paused", "cancelled", "idle", "returned"}
          /\ rn.parser \in {"paused", "destroyed"}
     \/ rn.rpc \in {"paused", "cancelled"}
          /\ rn.parser = "ended" /\ rn.epc = "wait" /\ rn.rowQueue # <<>>

\* the locals of a finished invocation are unreachable: only the fact that
\* it is over, how its row loop was left, the state of its results handle
\* and whether it met a fatal error are kept
Retire(rn) ==
  IF Finished(rn)
  THEN [NoRun EXCEPT !.pc = "done", !.settled = TRUE, !.rpc = rn.rpc,
                     !.handle = rn.handle, !.fatal = rn.fatal]
  ELSE rn

InitStore ==
  /\ jobQueue = <<JobId>>
  /\ file \in SeqsUpTo(RowSamples, MaxRows)
  /\ run = [r \in Runs |-> NoRun]
  /\ results = <<>>
  /\ summary = NoSummary
  /\ jobErrors = <<>>
  /\ apiCalls = [quote |-> 0, start |-> 0, stop |-> 0]
  /\ http = NoRequest
  /\ probe = NoProbe

\* the state after POST /api/jobs: the job row is inserted and its queue
\* entry added; the worker pool has any size up to MaxWorkers
Init ==
  /\ \E m \in JobModes, a \in RetryMaxAttemptsValues : job = createJob(m, a)
  /\ InitStore
  /\ \E n \in 1..MaxWorkers : pool = [workers |-> n]

\* a job with the default retry configuration and the default worker pool
InitDefault ==
  /\ \E m \in JobModes : job = createJob(m, DefaultRetryMaxAttempts)
  /\ InitStore
  /\ pool = [workers |-> DefaultConcurrency]

\* ------------------------------------------------------------------------
\* Worker: dispatch and processJob up to the streaming phase
\* ------------------------------------------------------------------------
\* (variant: the job is marked as started before the token is requested)
DispatchStarted(r) ==
  /\ jobQueue # <<>>
  /\ run[r].pc = "none"
  /\ \A q \in Runs : q < r => run[q].pc # "none"
  /\ Cardinality({q \in Runs : Active(q)}) < pool.workers
  /\ jobQueue' = Tail(jobQueue)
  /\ IF job.status = "CANCELLING"
     THEN /\ job' = updateJobStatus(job, "CANCELLED", FALSE)
          /\ run' = [run EXCEPT ![r] = Retire([@ EXCEPT !.pc = "done", !.settled = TRUE])]
     ELSE IF job.status = "PAUSED"
     THEN /\ run' = [run EXCEPT ![r] = Retire([@ EXCEPT !.pc = "done", !.settled = TRUE])]
          /\ UNCHANGED job
     ELSE /\ run' = [run EXCEPT ![r].pc = "getToken"]
          /\ job' = setJobStarted(job)
  /\ http' = Delivered(http)
  /\ UNCHANGED <<file, results, summary, jobErrors, apiCalls, pool, probe>>

\* (variant: processJob goes on to the token whatever the status read)
DispatchUnchecked(r) ==
  /\ jobQueue # <<>>
  /\ run[r].pc = "none"
  /\ \A q \in Runs : q < r => run[q].pc # "none"
  /\ Cardinality({q \in Runs : Active(q)}) < pool.workers
  /\ jobQueue' = Tail(jobQueue)
  /\ run' = [run EXCEPT ![r].pc = "getToken"]
  /\ http' = Delivered(http)
  /\ UNCHANGED <<job, file, results, summary, jobErrors, apiCalls, pool, probe>>

\* a worker with a free slot takes the next queue entry; processJob reads
\* the job (dbJob = await getJob) and applies the CANCELLING / PAUSED
\* pre-checks
Dispatch(r) ==
  /\ jobQueue # <<>>
  /\ run[r].pc = "none"
  /\ \A q \in Runs : q < r => run[q].pc # "none"
  /\ Cardinality({q \in Runs : Active(q)}) < pool.workers
  /\ jobQueue' = Tail(jobQueue)
  /\ IF job.status = "CANCELLING"
     THEN /\ job' = updateJobStatus(job, "CANCELLED", FALSE)
          /\ run' = [run EXCEPT ![r] = Retire([@ EXCEPT !.pc = "done", !.settled = TRUE])]
     ELSE IF job.status = "PAUSED"
     THEN /\ run' = [run EXCEPT ![r] = Retire([@ EXCEPT !.pc = "done", !.settled = TRUE])]
          /\ UNCHANGED job
     ELSE /\ run' = [run EXCEPT ![r].pc = "getToken"]
          /\ UNCHANGED job
  /\ http' = Delivered(http)
  /\ UNCHANGED <<file, results, summary, jobErrors, apiCalls, pool, probe>>

\* await apiClient.getToken() throws
W_TokenFailed(r) ==
  /\ run[r].pc = "getToken"
  /\ job' = updateJobStatus(job, "FAILED", TRUE)
  /\ run' = [run EXCEPT ![r] = Retire([@ EXCEPT !.pc = "done", !.settled = TRUE,
                                                !.fatal = TRUE])]
  /\ http' = Delivered(http)
  /\ UNCHANGED <<jobQueue, file, results, summary, jobErrors, apiCalls, pool, probe>>

\* getToken succeeds; setJobStarted; open the results file with 'w'; reset
\* the counters; count the rows (countOk = FALSE: the counting pass failed);
\* open the input and attach the parser
W_Start(r, countOk) ==
  /\ run[r].pc = "getToken"
  /\ LET total == IF countOk THEN Len(file) ELSE 0
         started == setJobStarted(job)
     IN /\ job' = IF countOk
                  THEN updateJobProgress(started, [total_rows_estimated |-> total], Null)
                  ELSE started
        /\ run' = [run EXCEPT ![r].pc = "streaming", ![r].totalRows = total,
                              ![r].handle = "open", ![r].pos = 0,
                              ![r].parser = "flowing"]
  /\ results' = <<>>
  /\ http' = Delivered(http)
  /\ UNCHANGED <<jobQueue, file, summary, jobErrors, apiCalls, pool, probe>>

\* getToken, setJobStarted and open as above, then storage.fileExists is
\* false or storage.getFileStream throws: FAILED, close the handle, return
W_FileMissing(r) ==
  /\ run[r].pc = "getToken"
  /\ job' = updateJobStatus(setJobStarted(job), "FAILED", TRUE)
  /\ run' = [run EXCEPT ![r] = Retire([@ EXCEPT !.pc = "done", !.settled = TRUE,
                                                !.handle = "closed", !.fatal = TRUE])]
  /\ results' = <<>>
  /\ http' = Delivered(http)
  /\ UNCHANGED <<jobQueue, file, summary, jobErrors, apiCalls, pool, probe>>


\* ------------------------------------------------------------------------
\* Worker: parser events, the row loop (processNextRow) and the 'end' handler
\* ------------------------------------------------------------------------
\* the four counters as passed to updateJobProgress
Counters(rn) ==
  [ rows_processed |-> rn.rowNumber, success_count |-> rn.successCount,
    error_count |-> rn.errorCount, rate_limited_count |-> rn.rateLimitedCount ]

\* bytesRead is never advanced: the checkpoint offset written is always 0
BytesRead == 0

\* parser.on('data'): push the record, then the synchronous part of
\* processNextRow: unless the loop is already running, set the guard, shift
\* the first record and start awaiting getJob
P_Data(r) ==
  /\ run[r].pc = "streaming"
  /\ run[r].parser = "flowing"
  /\ run[r].emitted < Len(file)
  /\ LET q == Append(run[r].rowQueue, file[run[r].emitted + 1])
     IN run' = IF run[r].processing
               THEN [run EXCEPT ![r].emitted = @ + 1, ![r].rowQueue = q]
               ELSE [run EXCEPT ![r].emitted = @ + 1, ![r].processing = TRUE,
                                ![r].row = Head(q), ![r].rowQueue = Tail(q),
                                ![r].rpc = "check"]
  /\ http' = Delivered(http)
  /\ UNCHANGED <<job, jobQueue, file, results, summary, jobErrors, apiCalls, pool, probe>>

\* parser.on('end') fires once every record has been emitted; the handler
\* starts polling `processing || rowQueue.length > 0`
P_End(r) ==
  /\ run[r].pc = "streaming"
  /\ run[r].parser = "flowing"
  /\ run[r].emitted = Len(file)
  /\ run' = [run EXCEPT ![r].parser = "ended", ![r].epc = "wait"]
  /\ http' = Delivered(http)
  /\ UNCHANGED <<job, jobQueue, file, results, summary, jobErrors, apiCalls, pool, probe>>

\* (variant: the parser goes on emitting after its error)
P_ErrorFlowing(r) ==
  /\ run[r].pc = "streaming"
  /\ run[r].parser = "flowing"
  /\ ~run[r].fatal
  /\ job' = updateJobStatus(job, "FAILED", TRUE)
  /\ run' = [run EXCEPT ![r].settled = TRUE, ![r].fatal = TRUE]
  /\ http' = Delivered(http)
  /\ UNCHANGED <<jobQueue, file, results, summary, jobErrors, apiCalls, pool, probe>>

\* parser.on('error'): FAILED with a message, reject; the worker's 'failed'
\* listener writes FAILED again.  The row loop is not stopped.
P_Error(r) ==
  /\ run[r].pc = "streaming"
  /\ run[r].parser = "flowing"
  /\ job' = updateJobStatus(job, "FAILED", TRUE)
  /\ run' = [run EXCEPT ![r] = Retire([@ EXCEPT !.parser = "destroyed",
                                                !.settled = TRUE, !.fatal = TRUE])]
  /\ http' = Delivered(http)
  /\ UNCHANGED <<jobQueue, file, results, summary, jobErrors, apiCalls, pool, probe>>

\* fileStream.on('error'): FAILED with a message, close the results file,
\* reject.  pipe() neither ends nor destroys the parser when its source
\* fails: it gets no further input and emits neither 'data' nor 'end' (the
\* state "destroyed" stands for a parser no event follows from).  The row
\* loop is not stopped.
F_Error(r) ==
  /\ run[r].pc = "streaming"
  /\ run[r].parser = "flowing"
  /\ job' = updateJobStatus(job, "FAILED", TRUE)
  /\ run' = [run EXCEPT ![r] = Retire([@ EXCEPT !.parser = "destroyed",
                                                !.settled = TRUE, !.fatal = TRUE,
                                                !.handle = "closed"])]
  /\ http' = Delivered(http)
  /\ UNCHANGED <<jobQueue, file, results, summary, jobErrors, apiCalls, pool, probe>>

\* the loop's next iteration: shift the next record, or leave the loop
NextIteration(rn) ==
  IF rn.rowQueue # <<>>
  THEN [rn EXCEPT !.row = Head(rn.rowQueue), !.rowQueue = Tail(rn.rowQueue),
                  !.rpc = "check"]
  ELSE [rn EXCEPT !.row = NoRow, !.processing = FALSE, !.rpc = "idle"]

\* (variant: the exception leaves processNextRow)
AfterCatchPropagates(rn) == [rn EXCEPT !.row = NoRow, !.rpc = "returned"]

\* the row-level catch: addJobLog, then the loop's next iteration.  For a
\* deleted job the insert into job_logs is refused (foreign key) and the
\* exception leaves processNextRow with `processing` still set.
AfterCatch(rn) ==
  IF job.deleted THEN [rn EXCEPT !.row = NoRow, !.rpc = "returned"]
  ELSE NextIteration(rn)

\* status check reads CANCELLING
R_Cancel(r) ==
  /\ run[r].pc = "streaming"
  /\ run[r].rpc = "check"
  /\ job.status = "CANCELLING"
  /\ job' = updateJobProgress(updateJobStatus(job, "CANCELLED", FALSE),
                              Counters(run[r]), BytesRead)
  /\ run' = [run EXCEPT ![r] = Retire(
               [@ EXCEPT !.parser = IF @ = "flowing" THEN "destroyed" ELSE @,
                         !.processing = FALSE, !.settled = TRUE,
                         !.row = NoRow, !.rpc = "cancelled"])]
  /\ http' = Delivered(http)
  /\ UNCHANGED <<jobQueue, file, results, summary, jobErrors, apiCalls, pool, probe>>

\* status check reads PAUSED
R_Pause(r) ==
  /\ run[r].pc = "streaming"
  /\ run[r].rpc = "check"
  /\ job.status = "PAUSED"
  /\ job' = updateJobProgress(job, Counters(run[r]), BytesRead)
  /\ run' = [run EXCEPT ![r] = Retire(
               [@ EXCEPT !.parser = IF @ = "flowing" THEN "paused" ELSE @,
                         !.processing = FALSE, !.settled = TRUE,
                         !.row = NoRow, !.rpc = "paused"])]
  /\ http' = Delivered(http)
  /\ UNCHANGED <<jobQueue, file, results, summary, jobErrors, apiCalls, pool, probe>>

\* a row failing hasRequiredFields: count, write the Row Result, log the
\* validation Job Error, then `return` out of processNextRow.  On a closed
\* results file writeFile throws: the row-level catch takes over and the
\* loop goes on.  For a deleted job addJobError is refused (foreign key).
R_Invalid(r) ==
  /\ run[r].pc = "streaming"
  /\ run[r].rpc = "check"
  /\ job.status \notin {"CANCELLING", "PAUSED"}
  /\ ~RowIsValid[run[r].row]
  /\ LET n == run[r].rowNumber + 1
         line == ResultLine(n, [quote_ok |-> FALSE, start_ok |-> FALSE, stop_ok |-> FALSE])
     IN IF run[r].handle = "closed"
        THEN /\ run' = [run EXCEPT ![r] = Retire(AfterCatch(
                          [@ EXCEPT !.rowNumber = n, !.errorCount = @ + 1]))]
             /\ UNCHANGED <<results, jobErrors>>
        ELSE /\ results' = WriteAt(results, run[r].pos, line)
             /\ jobErrors' = IF job.deleted THEN jobErrors
                             ELSE Append(jobErrors, <<n, "validation">>)
             /\ run' = [run EXCEPT ![r] = Retire(
                          [@ EXCEPT !.rowNumber = n, !.errorCount = @ + 1,
                                    !.pos = @ + 1, !.row = NoRow, !.rpc = "returned"])]
  /\ http' = Delivered(http)
  /\ UNCHANGED <<job, jobQueue, file, summary, apiCalls, pool, probe>>

\* the progress update written after a row
ProgressUpdate(rn) ==
  IF rn.totalRows = 0 \/ rn.rowNumber > rn.totalRows
  THEN [ total_rows_estimated |-> rn.rowNumber ] @@ Counters(rn)
  ELSE Counters(rn)

\* a row passing validation: quote (and start / stop), Row Result, progress
\* update; an exception escaping the body is caught and the loop goes on.
\* On a closed results file that exception is writeFile's: the calls are
\* made, the counters changed and the Job Errors logged, but no Row Result
\* is written and no progress stored.  For a deleted job the first
\* addJobError is refused (foreign key), and so is each one in the catch
\* clauses around it: a row with anything to log ends in the row-level catch.
R_Row(r, quoteReply, startReply, stopReply) ==
  /\ run[r].pc = "streaming"
  /\ run[r].rpc = "check"
  /\ job.status \notin {"CANCELLING", "PAUSED"}
  /\ RowIsValid[run[r].row]
  /\ LET n == run[r].rowNumber + 1
         e == RowEffects[job.mode, job.retry_max_attempts,
                         quoteReply, startReply, stopReply]
         counted == [run[r] EXCEPT !.rowNumber = n,
                                   !.successCount = @ + e.success,
                                   !.errorCount = @ + e.error,
                                   !.rateLimitedCount = @ + e.rateLimited,
                                   !.pos = @ + 1]
     IN IF e.escaped
        THEN /\ run' = [run EXCEPT ![r] =
                         Retire(AfterCatch([run[r] EXCEPT !.rowNumber = n]))]
             /\ UNCHANGED <<job, results, jobErrors, apiCalls>>
        ELSE IF run[r].handle = "closed" \/ (job.deleted /\ e.errors # <<>>)
        THEN /\ run' = [run EXCEPT ![r] =
                         Retire(AfterCatch([counted EXCEPT !.pos = run[r].pos]))]
             /\ jobErrors' = IF job.deleted THEN jobErrors
                             ELSE jobErrors \o [i \in 1..Len(e.errors) |-> <<n, e.errors[i]>>]
             /\ apiCalls' = [op \in DOMAIN apiCalls |-> apiCalls[op] + e.calls[op]]
             /\ UNCHANGED <<job, results>>
        ELSE /\ run' = [run EXCEPT ![r] = Retire(NextIteration(counted))]
             /\ results' = WriteAt(results, run[r].pos, ResultLine(n, e.line))
             /\ jobErrors' = jobErrors \o [i \in 1..Len(e.errors) |-> <<n, e.errors[i]>>]
             /\ apiCalls' = [op \in DOMAIN apiCalls |-> apiCalls[op] + e.calls[op]]
             /\ job' = updateJobProgress(job, ProgressUpdate(counted), BytesRead)
  /\ http' = Delivered(http)
  /\ UNCHANGED <<jobQueue, file, summary, pool, probe>>

\* 'end' handler, once `processing || rowQueue.length > 0` is false: close
\* the results file, write the summary, setJobResults, final progress update
E_WriteSummary(r) ==
  /\ run[r].epc = "wait"
  /\ ~run[r].processing
  /\ run[r].rowQueue = <<>>
  /\ summary' = [ written |-> TRUE, processed |-> run[r].rowNumber,
                  successes |-> run[r].successCount, errors |-> run[r].errorCount,
                  rate_limited |-> run[r].rateLimitedCount ]
  /\ job' = updateJobProgress(
              setJobResults(job),
              [ total_rows_estimated |->
                  IF run[r].totalRows # 0 THEN run[r].totalRows ELSE run[r].rowNumber ]
                @@ Counters(run[r]),
              Null)
  /\ run' = [run EXCEPT ![r].epc = "finish", ![r].handle = "closed"]
  /\ http' = Delivered(http)
  /\ UNCHANGED <<jobQueue, file, results, jobErrors, apiCalls, pool, probe>>

\* (variant: COMPLETED is set as soon as 'end' fires)
E_FinishEarly(r) ==
  /\ run[r].epc = "wait"
  /\ job' = setJobFinished(job, "COMPLETED")
  /\ run' = [run EXCEPT ![r] = Retire([@ EXCEPT !.epc = "done", !.settled = TRUE])]
  /\ http' = Delivered(http)
  /\ UNCHANGED <<jobQueue, file, results, summary, jobErrors, apiCalls, pool, probe>>

\* 'end' handler: setJobFinished(COMPLETED), addJobLog, resolve.  For a
\* deleted job addJobLog is refused (foreign key) and resolve is not reached.
E_Finish(r) ==
  /\ run[r].epc = "finish"
  /\ job' = setJobFinished(job, "COMPLETED")
  /\ run' = [run EXCEPT ![r] = Retire([@ EXCEPT !.epc = "done",
                                                !.settled = @ \/ ~job.deleted])]
  /\ http' = Delivered(http)
  /\ UNCHANGED <<jobQueue, file, results, summary, jobErrors, apiCalls, pool, probe>>

\* ------------------------------------------------------------------------
\* Job-control endpoints: POST /api/jobs/:id/{pause,resume,cancel}
\* ------------------------------------------------------------------------
ControlOps == {"pause", "resume", "cancel"}

\* the status guard of each endpoint
Allowed(op, status) ==
  CASE op = "pause"  -> status = "RUNNING"
    [] op = "resume" -> status = "PAUSED"
    [] op = "cancel" -> status \in {"QUEUED", "RUNNING", "PAUSED"}

\* the status an accepted request writes
Target(op) ==
  CASE op = "pause"  -> "PAUSED"
    [] op = "resume" -> "QUEUED"
    [] op = "cancel" -> "CANCELLING"

\* (variant: only an entry still waiting counts)
QueueHasWaiting(id) == \E i \in 1..Len(jobQueue) : jobQueue[i] = id

\* the queue holds a job under this id: waiting, taken by a worker, or
\* finished (nothing removes finished jobs: no removeOnComplete /
\* removeOnFail, no remove call)
QueueHas(id) ==
  \/ \E i \in 1..Len(jobQueue) : jobQueue[i] = id
  \/ id = JobId /\ \E r \in Runs : run[r].pc # "none"

\* (variant: a queue that takes every add)
QueueAddAlways(q, id) == Append(q, id)

\* jobQueue.add('process-job', { jobId }, { jobId, ... }): the entry is
\* added under the job's own id as its custom queue id, and the queue
\* ignores an add under an id it already holds a job for
QueueAdd(q, id) == IF QueueHas(id) THEN q ELSE Append(q, id)

\* the handler up to its guard: getJob, then 400 unless the status allows it
Req_Begin(op) ==
  /\ http.state # "pending"
  /\ http' = [op |-> op,
              state |-> IF Allowed(op, job.status) THEN "pending" ELSE "rejected"]
  /\ UNCHANGED <<job, jobQueue, file, run, results, summary, jobErrors, apiCalls, pool, probe>>

\* the rest of an accepted handler: updateJobStatus, for resume jobQueue.add,
\* then the 200 reply
Req_Commit ==
  /\ http.state = "pending"
  /\ http.op \in ControlOps
  /\ job' = updateJobStatus(job, Target(http.op), FALSE)
  /\ jobQueue' = IF http.op = "resume" THEN QueueAdd(jobQueue, JobId) ELSE jobQueue
  /\ http' = [http EXCEPT !.state = "ok"]
  /\ UNCHANGED <<file, run, results, summary, jobErrors, apiCalls, pool, probe>>

\* ------------------------------------------------------------------------
\* DELETE /api/jobs/:id
\* ------------------------------------------------------------------------
\* the statuses in which the endpoint removes a job
Removable == {"CANCELLED", "COMPLETED", "FAILED"}

\* the handler up to its guard: getJob (the job exists and is the caller's
\* own), then 400 unless the status is one in which it can be removed
Del_Begin ==
  /\ http.state # "pending"
  /\ ~job.deleted
  /\ http' = [op |-> "delete",
              state |-> IF job.status \in Removable THEN "pending" ELSE "rejected"]
  /\ UNCHANGED <<job, jobQueue, file, run, results, summary, jobErrors, apiCalls, pool, probe>>

\* the rest of an accepted handler: deleteJob, which cascades to the job's
\* rows in job_errors, then the reply
Del_Commit ==
  /\ http.state = "pending"
  /\ http.op = "delete"
  /\ job' = deleteJob(job)
  /\ jobErrors' = <<>>
  /\ http' = [http EXCEPT !.state = "ok"]
  /\ UNCHANGED <<jobQueue, file, run, results, summary, apiCalls, pool, probe>>

\* ------------------------------------------------------------------------
\* Specification
\* ------------------------------------------------------------------------
Next ==
  \/ \E r \in Runs : Dispatch(r)
  \/ \E r \in Runs : W_TokenFailed(r)
  \/ \E r \in Runs, countOk \in BOOLEAN : W_Start(r, countOk)
  \/ \E r \in Runs : W_FileMissing(r)
  \/ \E r \in Runs : P_Data(r)
  \/ \E r \in Runs : P_End(r)
  \/ \E r \in Runs : P_Error(r)
  \/ \E r \in Runs : F_Error(r)
  \/ \E r \in Runs : R_Cancel(r)
  \/ \E r \in Runs : R_Pause(r)
  \/ \E r \in Runs : R_Invalid(r)
  \/ \E r \in Runs, q \in QuoteReplies, s \in StartReplies, p \in StopReplies :
       R_Row(r, q, s, p)
  \/ \E r \in Runs : E_WriteSummary(r)
  \/ \E r \in Runs : E_Finish(r)
  \/ \E op \in ControlOps : Req_Begin(op)
  \/ Req_Commit
  \/ Del_Begin
  \/ Del_Commit

\* the steps of the worker process (everything but the control endpoints)
WorkerNext ==
  \/ \E r \in Runs : Dispatch(r)
  \/ \E r \in Runs : W_TokenFailed(r)
  \/ \E r \in Runs, countOk \in BOOLEAN : W_Start(r, countOk)
  \/ \E r \in Runs : W_FileMissing(r)
  \/ \E r \in Runs : P_Data(r)
  \/ \E r \in Runs : P_End(r)
  \/ \E r \in Runs : P_Error(r)
  \/ \E r \in Runs : F_Error(r)
  \/ \E r \in Runs : R_Cancel(r)
  \/ \E r \in Runs : R_Pause(r)
  \/ \E r \in Runs : R_Invalid(r)
  \/ \E r \in Runs, q \in QuoteReplies, s \in StartReplies, p \in StopReplies :
       R_Row(r, q, s, p)
  \/ \E r \in Runs : E_WriteSummary(r)
  \/ \E r \in Runs : E_Finish(r)

Spec == Init /\ [][Next]_vars

\* A job with the default retry configuration whose worker keeps running:
\* a worker step that stays possible is eventually taken (the event loop
\* runs every callback that is ready), and an accepted request is carried
\* out.  Nothing is assumed of which requests arrive.
SpecFair ==
  /\ InitDefault /\ [][Next]_vars
  /\ WF_vars(WorkerNext) /\ WF_vars(Req_Commit) /\ WF_vars(Del_Commit)

\* a job of mode QUOTE_ONLY with the default configuration whose input is
\* one record longer than the longest input of Init
InitLong ==
  /\ job = createJob("QUOTE_ONLY", DefaultRetryMaxAttempts)
  /\ jobQueue = <<JobId>>
  /\ file \in {f \in SeqsUpTo(RowSamples, MaxRows + 1) : Len(f) = MaxRows + 1}
  /\ run = [r \in Runs |-> NoRun]
  /\ results = <<>>
  /\ summary = NoSummary
  /\ jobErrors = <<>>
  /\ apiCalls = [quote |-> 0, start |-> 0, stop |-> 0]
  /\ http = NoRequest
  /\ probe = NoProbe
  /\ pool = [workers |-> DefaultConcurrency]

SpecLong == InitLong /\ [][Next]_vars

TypeOK ==
  /\ job.status \in JobStatuses
  /\ \A r \in Runs : run[r].rowNumber <= Len(file)

\* ------------------------------------------------------------------------
\* Units examined on their own: inputs drawn in the initial state, the unit
\* applied by one step.  The job store, queue and worker stay idle.
\* ------------------------------------------------------------------------
\* most attempts a quote call site is examined with
MaxAttempts == 3

\* "fetch failed" (message of the TypeError fetch() throws)
FetchFailedText == <<"f", "e", "t", "c", "h", " ", "f", "a", "i", "l", "e", "d">>

\* `Failed to get token: ${response.status} ${text}` with an empty body
FailedTokenText(status) ==
  <<"F", "a", "i", "l", "e", "d", " ", "t", "o", " ", "g", "e", "t", " ",
    "t", "o", "k", "e", "n", ":", " ">> \o NumText(status) \o <<" ">>

\* what one invocation of apiClient.requestQuote meets: the token request
\* made by its getToken() is refused (tokenFails), or the quote request gets
\* `reply`
Attempt(tokenFails, reply) == [tokenFails |-> tokenFails, reply |-> reply]

\* `await this.getToken()` stands outside requestQuote's try block: its
\* Error leaves requestQuote; everything else is returned as a value
QuoteAttempt(a) ==
  IF a.tokenFails THEN Raised(Thrown(FailedTokenText(401)))
  ELSE Returned(requestQuote(a.reply))

\* the quote call site for arbitrary per-attempt outcomes
QuoteCallSite(attempts, maxAttempts) ==
  LET r == retryWithBackoff([i \in 1..Len(attempts) |-> QuoteAttempt(attempts[i])],
                            maxAttempts, RetryBackoffMs)
  IN IF ~r.threw
     THEN [escaped |-> FALSE, calls |-> r.calls, sleeps |-> r.sleeps,
           result |-> r.value]
     ELSE IF r.error.undefined
     THEN [escaped |-> TRUE, calls |-> r.calls, sleeps |-> r.sleeps,
           result |-> [status |-> 0, error |-> NoText]]
     ELSE [escaped |-> FALSE, calls |-> r.calls, sleeps |-> r.sleeps,
           result |-> [status |-> 0,
                       error |-> OrElse(r.error.message, UnknownErrorText)]]

\* per-attempt outcomes the quote call site is examined with
AttemptSamples ==
  { Attempt(FALSE, HttpReply(201, NoText, NoText, NoText)),
    Attempt(FALSE, HttpReply(404, NoText, NoText, NoText)),
    Attempt(FALSE, HttpReply(503, NoText, NoText, NoText)),
    Attempt(FALSE, NetworkFailure(FetchFailedText)),
    Attempt(TRUE, HttpReply(201, NoText, NoText, NoText)) }

QuoteProbes ==
  { [fn |-> "quote", arg |-> [attempts |-> a, maxAttempts |-> n],
     done |-> FALSE, out |-> <<>>] :
      a \in {s \in SeqsUpTo(AttemptSamples, MaxAttempts) : Len(s) = MaxAttempts},
      n \in 0..MaxAttempts }

\* most failure reasons a run's histogram is examined with
MaxReasons == 4

\* .slice(0, 10)
TopN == 10

IsDigit(c) == c \in {"0", "1", "2", "3", "4", "5", "6", "7", "8", "9"}

DigitValue(c) == CHOOSE d \in 0..9 : Digit(d) = c

\* a < b for canonical decimal numerals (no leading zero): the shorter one,
\* or of two equally long ones the first to have the smaller digit
NumLess(a, b) ==
  \/ Len(a) < Len(b)
  \/ /\ Len(a) = Len(b)
     /\ \E i \in 1..Len(a) :
          /\ DigitValue(a[i]) < DigitValue(b[i])
          /\ \A j \in 1..(i - 1) : a[j] = b[j]

\* "4294967295" (2^32 - 1)
MaxIndexText == <<"4", "2", "9", "4", "9", "6", "7", "2", "9", "5">>

\* a property key that is an array index: a canonical decimal numeral below
\* 2^32 - 1.  An object lists such keys first, in ascending numeric order.
IsArrayIndex(s) ==
  /\ s # <<>>
  /\ \A i \in 1..Len(s) : IsDigit(s[i])
  /\ Len(s) = 1 \/ s[1] # "0"
  /\ NumLess(s, MaxIndexText)

\* failureReasons[errorMsg] = (failureReasons[errorMsg] || 0) + 1 for each
\* reason in turn: the keys in order of creation, with their counts
RECURSIVE Tally(_, _)
Tally(reasons, acc) ==
  IF reasons = <<>> THEN acc
  ELSE LET x == Head(reasons)
           hit == {i \in 1..Len(acc) : acc[i].reason = x}
       IN Tally(Tail(reasons),
                IF hit = {}
                THEN Append(acc, [reason |-> x, count |-> 1])
                ELSE [i \in 1..Len(acc) |->
                        IF i \in hit THEN [acc[i] EXCEPT !.count = @ + 1]
                        ELSE acc[i]])

InsertAt(sq, k, e) == SubSeq(sq, 1, k) \o <<e>> \o SubSeq(sq, k + 1, Len(sq))

\* entries ordered by ascending numeric key
RECURSIVE SortByIndex(_)
SortByIndex(es) ==
  IF es = <<>> THEN <<>>
  ELSE LET front == SortByIndex(SubSeq(es, 1, Len(es) - 1))
           e == es[Len(es)]
       IN InsertAt(front,
                   Cardinality({i \in 1..Len(front) :
                                  NumLess(front[i].reason, e.reason)}),
                   e)

IndexEntry(e) == IsArrayIndex(e.reason)

NamedEntry(e) == ~IsArrayIndex(e.reason)

\* Object.entries: array-index keys in ascending numeric order, then the
\* other keys in order of creation
ObjectEntries(created) ==
  SortByIndex(SelectSeq(created, IndexEntry)) \o SelectSeq(created, NamedEntry)

\* the comparator (a, b) => b[1] - a[1] keeps a before b
ComesBefore(a, b) == a.count >= b.count

\* Array.prototype.sort with that comparator (a stable sort)
RECURSIVE SortByCount(_)
SortByCount(es) ==
  IF es = <<>> THEN <<>>
  ELSE LET front == SortByCount(SubSeq(es, 1, Len(es) - 1))
           e == es[Len(es)]
       IN InsertAt(front,
                   Cardinality({i \in 1..Len(front) : ComesBefore(front[i], e)}),
                   e)

\* failure_reasons_topN of the Summary, from the reasons in order of
\* observation
failure_reasons_topN(reasons) ==
  LET sorted == SortByCount(ObjectEntries(Tally(reasons, <<>>)))
  IN SubSeq(sorted, 1, IF Len(sorted) < TopN THEN Len(sorted) ELSE TopN)

\* failure reasons the histogram is examined with: `HTTP ${status}` texts
\* and response bodies that are bare numerals
ReasonSamples == {HttpText(404), HttpText(500), Text429, <<"7">>}

\* more distinct reasons than the Summary lists
ManyReasons == [i \in 1..(TopN + 2) |-> HttpText(400 + ((i * 7) % 13))]

TopNProbes ==
  { [fn |-> "topN", arg |-> a, done |-> FALSE, out |-> <<>>] :
      a \in SeqsUpTo(ReasonSamples, MaxReasons)
             \cup {ManyReasons, ManyReasons \o <<HttpText(400)>>} }

\* longest id text drawn for a raw record
MaxIdLen == 2

\* "1,2,3"
CommaIdText == <<"1", ",", "2", ",", "3">>

\* values of the rid and location_id columns
IdTexts == SeqsUpTo({"1", ",", " "}, MaxIdLen) \cup {CommaIdText}

\* raw records: { columns: true } yields one string per header
RawRecords ==
  { [ RawRow(rid, loc, zone, zoneAlias, space) EXCEPT !.location_space_id = spaceAlias ] :
      rid \in IdTexts, loc \in IdTexts,
      zone \in {<<>>, <<"9">>, <<",">>}, zoneAlias \in {<<>>, <<" ", "8">>},
      space \in {<<>>, <<"A", ",">>}, spaceAlias \in {<<>>, <<"B">>} }

ParseProbes ==
  { [fn |-> "parse", arg |-> row, done |-> FALSE, out |-> <<>>] : row \in RawRecords }

\* replies of the remote API the row body is examined with: success, an
\* error embedded in a 2xx body, a 2xx status other than 200 / 201, a 4xx
\* and a 5xx response, and no response at all
QuoteReplySamples ==
  { HttpReply(200, NoText, NoText, NoText),
    HttpReply(201, NoText, NoText, NoText),
    HttpReply(200, ServiceInvokedText, NoText, NoText),
    HttpReply(204, NoText, NoText, NoText),
    HttpReply(404, NoText, NoText, NoText),
    HttpReply(503, NoText, NoText, NoText),
    NetworkFailure(FetchFailedText) }

StartReplySamples ==
  { HttpReply(201, NoText, NoText, <<"7">>),
    HttpReply(201, NoText, NoText, NoText),
    HttpReply(202, NoText, NoText, <<"7">>),
    HttpReply(201, ServiceInvokedText, NoText, <<"7">>),
    HttpReply(404, NoText, NoText, NoText),
    NetworkFailure(FetchFailedText) }

StopReplySamples ==
  { HttpReply(204, NoText, NoText, NoText),
    HttpReply(200, NoText, NoText, NoText),
    HttpReply(200, ServiceInvokedText, NoText, NoText),
    HttpReply(404, NoText, NoText, NoText),
    NetworkFailure(FetchFailedText) }

\* an error object with a status property, as thrown by fn
StatusError(status) == [status |-> status, message |-> HttpText(status), undefined |-> FALSE]

\* what an invocation of fn may do: resolve with a value, or throw an Error
\* without a status, a 5xx error or a 4xx error
RetryOutcomeSamples ==
  { Returned([status |-> 201, error |-> NoText]),
    Returned([status |-> 404, error |-> HttpText(404)]),
    Raised(Thrown(FetchFailedText)),
    Raised(StatusError(503)),
    Raised(StatusError(404)) }

\* backoffMs values retryWithBackoff is examined with
BackoffSamples == {RetryBackoffMs, 250}

RetryProbes ==
  { [fn |-> "retry", arg |-> [outcomes |-> os, maxAttempts |-> n, backoffMs |-> b],
     done |-> FALSE, out |-> <<>>] :
      os \in {sq \in SeqsUpTo(RetryOutcomeSamples, MaxAttempts) : Len(sq) = MaxAttempts},
      n \in 0..MaxAttempts, b \in BackoffSamples }

RowProbes ==
  { [fn |-> "row",
     arg |-> [mode |-> m, maxAttempts |-> n, quote |-> q, start |-> s, stop |-> p],
     done |-> FALSE, out |-> <<>>] :
      m \in JobModes, n \in 0..MaxAttempts,
      q \in QuoteReplySamples, s \in StartReplySamples, p \in StopReplySamples }

\* most fragments an error text is put together from
MaxFragments == 3

\* "invoked too many times"
InvokedText == SubSeq(ServiceInvokedLower, 9, Len(ServiceInvokedLower))

\* pieces of error texts: the words of the rate-limit indicators in mixed
\* case, on their own and apart, and an unrelated `HTTP ${status}` text
ErrorFragments ==
  { <<"R", "a", "t", "e">>, <<" ">>, <<"L", "I", "M", "I", "T">>, Text429,
    <<"T", "o", "o", " ", "M", "a", "n", "y", " ", "R", "e", "q", "u", "e", "s", "t", "s">>,
    <<"S", "e", "r", "v", "i", "c", "e", " ">>, InvokedText, HttpText(404) }

\* the pieces in a row
RECURSIVE Concat(_)
Concat(parts) == IF parts = <<>> THEN <<>> ELSE Head(parts) \o Concat(Tail(parts))

\* error texts isRateLimited is examined with; the empty text stands for a
\* null / empty error
ErrorTexts == { Concat(parts) : parts \in SeqsUpTo(ErrorFragments, MaxFragments) }

RateLimitProbes ==
  { [fn |-> "rateLimit", arg |-> e, done |-> FALSE, out |-> <<>>] : e \in ErrorTexts }

\* an access token
TokenText == <<"t", "k">>

\* replies to the token request: a token for an hour, for ten minutes, for
\* five minutes, without expires_in, read after a delay; a reply without
\* access_token; a body that is no JSON; a 401; no response at all
TokenReplySamples ==
  { TokenReply(200, TRUE, TokenText, 3600, 0),
    TokenReply(200, TRUE, TokenText, 600, 0),
    TokenReply(200, TRUE, TokenText, 300, 0),
    TokenReply(200, TRUE, TokenText, 0, 0),
    TokenReply(200, TRUE, TokenText, 3600, 250),
    TokenReply(200, TRUE, NoText, 3600, 0),
    TokenReply(200, FALSE, NoText, 0, 0),
    TokenReply(401, TRUE, NoText, 0, 0),
    TokenNetworkFailure }

\* the replies an operation's own request is examined with
ClientReplySamples(op) ==
  CASE op = "quote" -> QuoteReplySamples
    [] op = "start" -> StartReplySamples
    [] op = "stop"  -> StopReplySamples

\* a client holding a token that is good for another hour at time 0
WarmCache == [token |-> TokenText, tokenExpiresAt |-> 3600000]

ClientProbes ==
  UNION { { [fn |-> "client",
             arg |-> [op |-> op, cache |-> c, tokenReply |-> t, reply |-> rp],
             done |-> FALSE, out |-> <<>>] :
              c \in {NoCache, WarmCache}, t \in TokenReplySamples,
              rp \in ClientReplySamples(op) } : op \in {"quote", "start", "stop"} }

\* most getToken calls made on one client
MaxTokenCalls == 2

\* time between two getToken calls, in ms: next to nothing, just short of
\* 55 minutes and exactly 55 minutes
WaitSamples == {1, 3299999, 3300000}

\* getToken called on one client at the times the waits lead to, each token
\* request answered by the reply drawn for that call: per call the time,
\* the cache it met and what getToken did
RECURSIVE TokenCalls(_, _, _)
TokenCalls(cache, clock, calls) ==
  IF calls = <<>> THEN <<>>
  ELSE LET now == clock + Head(calls).wait
           res == getToken(cache, now, Head(calls).reply)
       IN <<[now |-> now, before |-> cache, result |-> res]>>
          \o TokenCalls(res.cache,
                        now + res.requests * Head(calls).reply.elapsed,
                        Tail(calls))

TokenProbes ==
  { [fn |-> "token", arg |-> calls, done |-> FALSE, out |-> <<>>] :
      calls \in SeqsUpTo([wait : WaitSamples, reply : TokenReplySamples],
                         MaxTokenCalls) \ {<<>>} }

\* the worker is idle and the store holds no job being processed
IdleStore ==
  /\ job = createJob("QUOTE_ONLY", DefaultRetryMaxAttempts)
  /\ jobQueue = <<>>
  /\ file = <<>>
  /\ run = [r \in Runs |-> NoRun]
  /\ results = <<>>
  /\ summary = NoSummary
  /\ jobErrors = <<>>
  /\ apiCalls = [quote |-> 0, start |-> 0, stop |-> 0]
  /\ http = NoRequest
  /\ pool = [workers |-> DefaultConcurrency]

InitUnits ==
  /\ IdleStore
  /\ probe \in QuoteProbes \cup TopNProbes \cup ParseProbes \cup RowProbes \cup RetryProbes
                \cup RateLimitProbes \cup ClientProbes
                \cup TokenProbes

\* the quote call site of processNextRow runs on the drawn attempts
U_Quote ==
  /\ probe.fn = "quote"
  /\ ~probe.done
  /\ probe' = [probe EXCEPT !.done = TRUE,
                            !.out = QuoteCallSite(probe.arg.attempts,
                                                  probe.arg.maxAttempts)]
  /\ UNCHANGED <<job, jobQueue, file, run, results, summary, jobErrors, apiCalls,
                 http, pool>>

\* the 'end' handler builds failure_reasons_topN from the reasons observed
U_TopN ==
  /\ probe.fn = "topN"
  /\ ~probe.done
  /\ probe' = [probe EXCEPT !.done = TRUE, !.out = failure_reasons_topN(probe.arg)]
  /\ UNCHANGED <<job, jobQueue, file, run, results, summary, jobErrors, apiCalls,
                 http, pool>>

\* processNextRow: parsedRow = parseCSVRow(row), then hasRequiredFields
U_Parse ==
  /\ probe.fn = "parse"
  /\ ~probe.done
  /\ LET parsedRow == parseCSVRow(probe.arg)
     IN probe' = [probe EXCEPT !.done = TRUE,
                               !.out = [ parsedRow |-> parsedRow,
                                         valid |-> hasRequiredFields(parsedRow) ]]
  /\ UNCHANGED <<job, jobQueue, file, run, results, summary, jobErrors, apiCalls,
                 http, pool>>

\* the body of processNextRow for a record that passed validation
U_Row ==
  /\ probe.fn = "row"
  /\ ~probe.done
  /\ probe' = [probe EXCEPT !.done = TRUE,
                            !.out = ProcessRow(probe.arg.mode, probe.arg.maxAttempts,
                                               probe.arg.quote, probe.arg.start,
                                               probe.arg.stop)]
  /\ UNCHANGED <<job, jobQueue, file, run, results, summary, jobErrors, apiCalls,
                 http, pool>>

\* retryWithBackoff with the call sites' isRetryable predicate
U_Retry ==
  /\ probe.fn = "retry"
  /\ ~probe.done
  /\ probe' = [probe EXCEPT !.done = TRUE,
                            !.out = retryWithBackoff(probe.arg.outcomes,
                                                     probe.arg.maxAttempts,
                                                     probe.arg.backoffMs)]
  /\ UNCHANGED <<job, jobQueue, file, run, results, summary, jobErrors, apiCalls,
                 http, pool>>

\* isRateLimited(quoteResult.error)
U_RateLimit ==
  /\ probe.fn = "rateLimit"
  /\ ~probe.done
  /\ probe' = [probe EXCEPT !.done = TRUE, !.out = [limited |-> isRateLimited(probe.arg)]]
  /\ UNCHANGED <<job, jobQueue, file, run, results, summary, jobErrors, apiCalls,
                 http, pool>>

\* one invocation of requestQuote / startPayment / stopPayment
U_Client ==
  /\ probe.fn = "client"
  /\ ~probe.done
  /\ probe' = [probe EXCEPT !.done = TRUE,
                            !.out = ClientCall(probe.arg.op, probe.arg.cache, 0,
                                               probe.arg.tokenReply, probe.arg.reply)]
  /\ UNCHANGED <<job, jobQueue, file, run, results, summary, jobErrors, apiCalls,
                 http, pool>>

\* getToken called on a freshly constructed client, again and again
U_Token ==
  /\ probe.fn = "token"
  /\ ~probe.done
  /\ probe' = [probe EXCEPT !.done = TRUE, !.out = TokenCalls(NoCache, 0, probe.arg)]
  /\ UNCHANGED <<job, jobQueue, file, run, results, summary, jobErrors, apiCalls,
                 http, pool>>

NextUnits ==
  \/ U_Quote
  \/ U_TopN
  \/ U_Parse
  \/ U_Row
  \/ U_Retry
  \/ U_RateLimit
  \/ U_Client
  \/ U_Token

SpecUnits == InitUnits /\ [][NextUnits]_vars

\* ------------------------------------------------------------------------
\* Properties
\* ------------------------------------------------------------------------
\* the results artifact holds exactly one Row Result for each of rows 1..k
ResultsAre(f, k) ==
  /\ Len(f) = k
  /\ \A i \in 1..k : f[i].row_number = i

\* the row loop of run r takes a record failing validation (this step)
TakesInvalidRow(r) ==
  /\ run[r].pc = "streaming"
  /\ run[r].rpc = "check"
  /\ job.status \notin {"CANCELLING", "PAUSED"}
  /\ ~RowIsValid[run[r].row]
  /\ run'[r].rowNumber = run[r].rowNumber + 1

\* C1: a run that is never paused, cancelled or failed eventually reaches
\* COMPLETED, whatever mix of valid, invalid and failing rows it processes:
\* a per-row error does not stop the processing of the rows after it.
C1_CompletesUnlessInterrupted ==
  <>(job.status \in {"COMPLETED", "PAUSED", "CANCELLING", "CANCELLED", "FAILED"})

\* C2: processing a record that fails validation writes exactly one Row
\* Result with quote_ok = false, records exactly one 'validation' Job Error,
\* makes no external call, and raises the stored error_count and
\* rows_processed by one each.
C2_InvalidRowCounted ==
  [][\A r \in Runs : TakesInvalidRow(r) =>
        /\ Len(results') = Len(results) + 1
        /\ results'[Len(results')].quote_ok = FALSE
        /\ jobErrors' = Append(jobErrors, <<run[r].rowNumber + 1, "validation">>)
        /\ apiCalls' = apiCalls
        /\ job'.error_count = job.error_count + 1
        /\ job'.rows_processed = job.rows_processed + 1]_vars

\* C3: in every persisted progress state and in the Summary, the number of
\* successes plus the number of errors equals the number of rows processed,
\* whatever the rows' outcomes and the retry configuration.
C3_CountsAddUp ==
  /\ job.success_count + job.error_count = job.rows_processed
  /\ summary.written => summary.successes + summary.errors = summary.processed

C5_OneActiveRun ==
  Cardinality({r \in Runs : Active(r)}) <= 1

\* a pause and a resume both accepted before the running worker's next
\* status check, in a pool with a free worker
C5_Witness ==
  /\ job.status = "QUEUED"
  /\ http = [op |-> "resume", state |-> "ok"]
  /\ pool.workers >= 2
  /\ \E r \in Runs : Active(r) /\ run[r].pc = "streaming"

\* C6: whenever a job's status is COMPLETED, every record of the input has
\* exactly one Row Result and the Summary's processed count is the number
\* of records, also when a pause or cancel request arrived while the last
\* rows were being processed.
C6_CompletedIsComplete ==
  job.status = "COMPLETED" =>
    /\ ResultsAre(results, Len(file))
    /\ summary.written
    /\ summary.processed = Len(file)

\* the row loop of run r reads PAUSED at a row boundary (this step)
ObservesPause(r) == run[r].rpc = "check" /\ run'[r].rpc = "paused"

\* the row loop of run r reads CANCELLING at a row boundary (this step)
ObservesCancel(r) == run[r].rpc = "check" /\ run'[r].rpc = "cancelled"

\* C7: when the processor observes PAUSED at the row boundary after row k
\* (k < N), exactly rows 1..k have Row Results, the stored rows_processed
\* is k, the status is PAUSED and no Summary is written; afterwards that
\* run neither writes a Summary nor turns the status to FAILED or COMPLETED.
C7_PauseStopsTheRun ==
  [][\A r \in Runs :
        /\ ObservesPause(r) =>
              /\ ResultsAre(results', run[r].rowNumber)
              /\ job'.rows_processed = run[r].rowNumber
              /\ job'.status = "PAUSED"
              /\ ~summary'.written
        /\ run[r].rpc = "paused" =>
              /\ summary' = summary
              /\ job'.status \in {"FAILED", "COMPLETED"} => job'.status = job.status]_vars

\* C8: when the processor observes CANCELLING at the row boundary after
\* row k (k < N), the status becomes CANCELLED and stays so, the stored
\* rows_processed is k, no further row is processed and no Summary is
\* written.
C8_CancelStopsTheRun ==
  [][\A r \in Runs :
        /\ ObservesCancel(r) =>
              /\ job'.rows_processed = run[r].rowNumber
              /\ job'.status = "CANCELLED"
              /\ ~summary'.written
        /\ run[r].rpc = "cancelled" =>
              /\ job'.status = "CANCELLED"
              /\ job'.rows_processed = job.rows_processed
              /\ results' = results
              /\ summary' = summary]_vars

\* C9: once an accepted cancel has set the job to CANCELLING, the job
\* eventually reaches CANCELLED, the worker and the queue running on.
\* Stated in its weakest form: the job does not stay CANCELLING for ever
\* (a run that fails or completes before its next row boundary also counts
\* as leaving it).
C9_CancelHonoured ==
  (job.status = "CANCELLING") ~> (job.status \in {"CANCELLED", "FAILED", "COMPLETED"})

\* the statuses in which the specification lets a control request through
Permitted(op, status) ==
  \/ op = "pause" /\ status = "RUNNING"
  \/ op = "resume" /\ status = "PAUSED"
  \/ op = "cancel" /\ status \in {"QUEUED", "RUNNING", "PAUSED"}
  \/ op = "delete" /\ status \in {"CANCELLED", "COMPLETED", "FAILED"}

\* C10: pause is accepted only when the status read is RUNNING, resume only
\* when it is PAUSED, cancel only when it is QUEUED, RUNNING or PAUSED; a
\* rejected request leaves the status and the queue as they were; an
\* accepted pause sets PAUSED, an accepted resume sets QUEUED and puts the
\* job in the queue, an accepted cancel sets CANCELLING.
C10_ControlGuards ==
  [][/\ (http.state # "pending" /\ http'.state = "pending") =>
           Permitted(http'.op, job.status)
     /\ http'.state = "rejected" =>
           /\ ~Permitted(http'.op, job.status)
           /\ job'.status = job.status
           /\ jobQueue' = jobQueue
     /\ (http.state = "pending" /\ http'.state = "ok") =>
           /\ http.op = "pause" => job'.status = "PAUSED" /\ jobQueue' = jobQueue
           /\ http.op = "resume" =>
                 /\ job'.status = "QUEUED"
                 /\ \E i \in 1..Len(jobQueue') : jobQueue'[i] = JobId
           /\ http.op = "cancel" =>
                 job'.status = "CANCELLING" /\ jobQueue' = jobQueue]_vars

\* the quote request of this attempt gets a retryable outcome: a 5xx
\* response or no response at all
TransientFailure(a) ==
  ~a.tokenFails /\ (a.reply.network \/ a.reply.status >= 500)

\* the quote request of this attempt succeeds
QuoteSucceeds(a) ==
  /\ ~a.tokenFails
  /\ ~a.reply.network
  /\ a.reply.status \in {200, 201}
  /\ a.reply.error = NoText

\* C11: a row whose quote call gets a retryable outcome (5xx response or
\* network failure) on its first k attempts and succeeds on attempt k + 1,
\* with k + 1 <= retry_max_attempts, has the quote call re-issued (k + 1
\* invocations) and ends with a successful quote (quote_ok = true, counted
\* as a success).
C11_RetryThenSuccess ==
  (probe.fn = "quote" /\ probe.done) =>
    \A k \in 1..(probe.arg.maxAttempts - 1) :
      ( /\ \A i \in 1..k : TransientFailure(probe.arg.attempts[i])
        /\ QuoteSucceeds(probe.arg.attempts[k + 1]) )
      => /\ probe.out.calls = k + 1
         /\ ~probe.out.escaped
         /\ QuoteOk(probe.out.result)

\* this step stores progress columns of the job (counters, estimate or
\* checkpoint) that differ from the stored ones
ProgressPersisted ==
  \E f \in {"rows_processed", "success_count", "error_count", "rate_limited_count",
            "total_rows_estimated", "checkpoint_offset"} : job'[f] # job[f]

\* C12: within a run the Row Results are written in ascending, gapless row
\* order (line i of the results artifact has row_number i), and whenever
\* progress is persisted the number of Row Results written equals the
\* stored rows_processed: each processed row has exactly one Row Result.
C12_OrderedGapless ==
  [][/\ \A i \in 1..Len(results') : results'[i].row_number = i
     /\ ProgressPersisted => Len(results') = job'.rows_processed]_vars

ResumedAfter(k) ==
  /\ job.status = "QUEUED"
  /\ \E r \in Runs : run[r].rpc = "paused"
  /\ job.rows_processed = k
  /\ k < Len(file)

\* C14: when a paused job is resumed, processing continues from the
\* checkpoint: the row following the last row processed before the pause is
\* processed next.  Stated in its weakest form: a job resumed after k rows
\* does not stay QUEUED with k rows processed for ever.
C14_ResumeContinues ==
  \A k \in 0..MaxRows :
    ResumedAfter(k) ~> (job.rows_processed > k \/ job.status # "QUEUED")

\* the quote did not succeed: a status other than 200 / 201 or an error text
QuoteFailed(q) == q.status \notin {200, 201} \/ q.error # NoText

\* for each reply to the quote request: whether the quote failed and
\* whether its error text is classified as rate-limited
QuoteOutcomes ==
  [ a \in RetryMaxAttemptsValues, q \in QuoteReplies |->
      LET quote == CallSite(requestQuote(q), a).result
      IN [ failed |-> QuoteFailed(quote),
           rateLimited |-> isRateLimited(quote.error) ] ]

\* the row loop of run r takes a record passing validation (this step)
TakesValidRow(r) ==
  /\ run[r].pc = "streaming"
  /\ run[r].rpc = "check"
  /\ job.status \notin {"CANCELLING", "PAUSED"}
  /\ RowIsValid[run[r].row]
  /\ run'[r].rowNumber = run[r].rowNumber + 1

\* the stored counters after this step are the stored ones plus these
StoredCountsGrowBy(errors, rateLimited) ==
  /\ job'.error_count = job.error_count + errors
  /\ job'.rate_limited_count = job.rate_limited_count + rateLimited

\* C15: whenever a row's quote fails with an error text classified as
\* rate-limited, rate_limited_count and error_count each increase by exactly
\* one for that row and a sleep of rate_limit_backoff_ms is made before the
\* next row begins; a quote failure not so classified leaves
\* rate_limited_count as it is and makes no such sleep.  (The counters are
\* the row's additions to the run's counters, and the stored ones wherever
\* the row's progress is stored, i.e. the results file is open.)
C15_RateLimitPath ==
  [][\A r \in Runs :
        TakesValidRow(r) =>
          \A q \in QuoteReplies, s \in StartReplies, p \in StopReplies :
            LET e == RowEffects[job.mode, job.retry_max_attempts, q, s, p]
                quote == QuoteOutcomes[job.retry_max_attempts, q]
            IN (~e.escaped /\ quote.failed /\ R_Row(r, q, s, p)) =>
                 /\ e.error = 1
                 /\ e.rateLimited = (IF quote.rateLimited THEN 1 ELSE 0)
                 /\ e.sleeps = (IF quote.rateLimited THEN <<RateLimitBackoffMs>> ELSE <<>>)
                 /\ run[r].handle = "open" => StoredCountsGrowBy(e.error, e.rateLimited)]_vars

\* a row whose quote was answered with the vendor's throttling phrase has
\* been processed
C15_Witness ==
  /\ job.rows_processed = 1
  /\ job.rate_limited_count = 1
  /\ job.error_count = 1

\* number of occurrences of x in the sequence
Occurrences(sq, x) == Cardinality({i \in 1..Len(sq) : sq[i] = x})

\* position at which x was first observed
FirstSeen(sq, x) == CHOOSE i \in 1..Len(sq) : sq[i] = x /\ \A j \in 1..(i - 1) : sq[j] # x

\* C16: for every sequence of failure reasons, failure_reasons_topN lists at
\* most N (10) distinct reasons with their exact occurrence counts, sorted
\* by count descending, reasons with equal counts in the order in which
\* they were first observed (and no listed reason is rarer than one left
\* out).
C16_TopNOrdering ==
  (probe.fn = "topN" /\ probe.done) =>
    LET top == probe.out
        seen == {probe.arg[i] : i \in 1..Len(probe.arg)}
        listed == {top[i].reason : i \in 1..Len(top)}
    IN /\ Len(top) = (IF Cardinality(seen) < TopN THEN Cardinality(seen) ELSE TopN)
       /\ Cardinality(listed) = Len(top)
       /\ \A i \in 1..Len(top) :
            /\ top[i].reason \in seen
            /\ top[i].count = Occurrences(probe.arg, top[i].reason)
       /\ \A x \in seen \ listed, i \in 1..Len(top) :
            Occurrences(probe.arg, x) <= top[i].count
       /\ \A i, j \in 1..Len(top) :
            i < j =>
              /\ top[i].count >= top[j].count
              /\ top[i].count = top[j].count =>
                   FirstSeen(probe.arg, top[i].reason) < FirstSeen(probe.arg, top[j].reason)

\* the text between the first and the last character that is not a space
Trimmed(v) ==
  LET solid == {i \in 1..Len(v) : v[i] # " "}
  IN IF solid = {} THEN <<>>
     ELSE SubSeq(v, CHOOSE i \in solid : \A j \in solid : i <= j,
                    CHOOSE i \in solid : \A j \in solid : i >= j)

NotComma(c) == c # ","

\* the normalised id of a column and its alias column: the column's value
\* if it has one, else the alias column's; trimmed; commas removed; null
\* (the empty text) when nothing is left
Normalised(value, alias) ==
  SelectSeq(Trimmed(IF value # <<>> THEN value ELSE alias), NotComma)

\* C17: for every raw record, each of rid, zone and space is resolved
\* through its header alias (rid | location_id, zone |
\* parking_payment_zone_id, space | location_space_id), trimmed of
\* surrounding whitespace, stripped of all commas and mapped to null when
\* the result is empty; the row passes validation iff the normalised rid or
\* the normalised zone is non-null.
C17_IdNormalisation ==
  (probe.fn = "parse" /\ probe.done) =>
    LET row == probe.arg
        rid == Normalised(row.rid, row.location_id)
        zone == Normalised(row.zone, row.parking_payment_zone_id)
        space == Normalised(row.space, row.location_space_id)
    IN /\ probe.out.parsedRow = [rid |-> rid, zone |-> zone, space |-> space]
       /\ probe.out.valid <=> (rid # <<>> \/ zone # <<>>)

\* the record with rid "1,2,3" has been parsed to rid "123" and passes
C17_Witness ==
  /\ probe.fn = "parse"
  /\ probe.done
  /\ probe.arg.rid = CommaIdText
  /\ probe.out.parsedRow.rid = <<"1", "2", "3">>
  /\ probe.out.valid

\* C18: a fatal job error (auth failure at start, missing input, failure to
\* open the input, stream read error, CSV parse error) sets the status to
\* FAILED with an error message and no Summary is written; afterwards the
\* run that met it writes no Summary and does not turn the status to
\* COMPLETED.
C18_FatalErrorFails ==
  [][\A r \in Runs :
        /\ (~run[r].fatal /\ run'[r].fatal) =>
              /\ job'.status = "FAILED"
              /\ job'.error_message
              /\ ~summary'.written
        /\ run[r].fatal =>
              /\ summary' = summary
              /\ job'.status = "COMPLETED" => job.status = "COMPLETED"]_vars

\* a run failed on a stream or parse error after its first row was stored,
\* with its row loop still at work on a further row
C18_Witness ==
  /\ job.status = "FAILED"
  /\ job.error_message
  /\ job.rows_processed >= 1
  /\ \E r \in Runs : run[r].fatal /\ run[r].pc = "streaming" /\ run[r].rpc = "check"

\* run r ended on a token failure: a fatal error before the results file
\* was opened
TokenFailed(r) == run[r].fatal /\ run[r].handle = "none"

\* nothing of the job has been processed: no run opened the results file,
\* no row was counted, no Row Result or Job Error written, no external call
\* made, no Summary written
Untouched ==
  /\ \A q \in Runs : run[q].handle = "none"
  /\ results = <<>>
  /\ jobErrors = <<>>
  /\ apiCalls = [quote |-> 0, start |-> 0, stop |-> 0]
  /\ job.rows_processed = 0
  /\ ~summary.written

\* C19: if obtaining the auth token fails at dispatch, the job goes to
\* FAILED without having been marked RUNNING, no row is read or processed,
\* no quote / start / stop call is issued and the results artifact is
\* neither created nor truncated; the run does nothing afterwards.
C19_TokenFailure ==
  [][\A r \in Runs :
        /\ (~TokenFailed(r) /\ TokenFailed(r)') =>
              /\ job.status # "RUNNING"
              /\ job'.status = "FAILED"
              /\ job'.error_message
              /\ results' = results
              /\ Untouched'
        /\ TokenFailed(r) =>
              /\ run'[r] = run[r]
              /\ job'.status # "RUNNING"
              /\ Untouched']_vars

\* the token request of the job's dispatch failed and the job is FAILED
C19_Witness ==
  /\ job.status = "FAILED"
  /\ job.error_message
  /\ \E r \in Runs : TokenFailed(r)

StillProcessing(r) ==
  \/ Active(r)
  \/ run[r].rpc = "check"
  \/ run[r].epc \in {"wait", "finish"}

\* C21: a delete request is accepted only when the status read is
\* CANCELLED, COMPLETED or FAILED; in QUEUED, RUNNING, PAUSED or CANCELLING
\* it is rejected and the job record is left unchanged; so the job is never
\* deleted while a run of it is still processing.
C21_DeleteOnlyWhenOver ==
  [][/\ (http'.op = "delete" /\ http.state # "pending" /\ http'.state = "pending") =>
           job.status \in {"CANCELLED", "COMPLETED", "FAILED"}
     /\ (http'.op = "delete" /\ http'.state = "rejected") =>
           /\ job.status \in {"QUEUED", "RUNNING", "PAUSED", "CANCELLING"}
           /\ job' = job
     /\ (~job.deleted /\ job'.deleted) =>
           /\ job.status \in {"CANCELLED", "COMPLETED", "FAILED"}
           /\ \A r \in Runs : ~StillProcessing(r)]_vars

\* the reply makes the quote a success: 200 or 201 with no error in the body
QuoteReplyOk(reply) ==
  ~reply.network /\ reply.status \in {200, 201} /\ reply.error = NoText

\* the reply makes the start a success: a 2xx status, no error in the body
\* and a payment identifier
StartReplyOk(reply) ==
  /\ ~reply.network
  /\ reply.status >= 200 /\ reply.status <= 299
  /\ reply.error = NoText
  /\ reply.id # NoText

\* position of an operation in the order quote, start, stop
CallRank(op) == CASE op = "quote" -> 1 [] op = "start" -> 2 [] op = "stop" -> 3

\* C22: in mode QUOTE_ONLY a row issues no start and no stop call; in mode
\* QUOTE_START_STOP a start call is issued only after the row's quote
\* succeeded and a stop call only after the row's start succeeded, keyed by
\* the payment identifier the start returned; the calls of a row are issued
\* in the order quote, start, stop.
C22_CallSequencing ==
  (probe.fn = "row" /\ probe.done) =>
    LET a == probe.arg
        o == probe.out
    IN /\ a.mode = "QUOTE_ONLY" => o.calls.start = 0 /\ o.calls.stop = 0
       /\ o.calls.start > 0 =>
            /\ a.mode = "QUOTE_START_STOP"
            /\ o.calls.quote > 0
            /\ QuoteReplyOk(a.quote)
       /\ o.calls.stop > 0 =>
            /\ o.calls.start > 0
            /\ StartReplyOk(a.start)
            /\ o.stopKey = a.start.id
       /\ \A op \in {"quote", "start", "stop"} :
            Cardinality({i \in 1..Len(o.issued) : o.issued[i] = op}) = o.calls[op]
       /\ \A i, j \in 1..Len(o.issued) :
            i < j => CallRank(o.issued[i]) <= CallRank(o.issued[j])

\* a row of mode QUOTE_START_STOP has issued its quote, start and stop call
C22_Witness ==
  /\ probe.fn = "row"
  /\ probe.done
  /\ probe.arg.mode = "QUOTE_START_STOP"
  /\ probe.out.issued = <<"quote", "start", "stop">>
  /\ probe.out.stopKey = <<"7">>

\* C23: a row's quote is a success iff its status is 200 or 201 and the
\* result carries no error (an error embedded in a 2xx body included); the
\* row adds one to success_count iff its quote is a success and one to
\* error_count iff it is not, whatever its start and stop calls come to.
C23_QuoteDecidesCounts ==
  (probe.fn = "row" /\ probe.done /\ ~probe.out.escaped) =>
    LET ok == QuoteReplyOk(probe.arg.quote)
        o == probe.out
    IN /\ o.resultRow.quote_ok <=> ok
       /\ o.success = (IF ok THEN 1 ELSE 0)
       /\ o.error = (IF ok THEN 0 ELSE 1)

\* a row whose quote succeeded and whose start failed: counted as a success
C23_Witness ==
  /\ probe.fn = "row"
  /\ probe.done
  /\ probe.out.calls.start = 1
  /\ ~probe.out.resultRow.start_ok
  /\ probe.out.errors = <<"start">>
  /\ probe.out.success = 1
  /\ probe.out.error = 0

\* the start call of the row did not succeed: its reply is no success, or
\* it is a 2xx reply with a status other than 200 / 201
StartNotSucceeded(reply) ==
  ~StartReplyOk(reply) \/ reply.status \notin {200, 201}

\* C24: every start outcome that is not a success is logged as a 'start'
\* Job Error of the row, and the Row Result has start_ok = false together
\* with the start error; a 2xx status other than 200 / 201 returned with a
\* payment identifier included.
C24_StartFailureLogged ==
  (probe.fn = "row" /\ probe.done /\ probe.out.calls.start > 0) =>
    (StartNotSucceeded(probe.arg.start) =>
       /\ \E i \in 1..Len(probe.out.errors) : probe.out.errors[i] = "start"
       /\ ~probe.out.resultRow.start_ok
       /\ probe.out.resultRow.start_error # NoText)

\* processJob is invoked for run r and reads this status (this step)
DispatchReads(r, status) ==
  run[r].pc = "none" /\ run'[r].pc # "none" /\ job.status = status

\* run r ended at the dispatch pre-check: it returned without a fatal error
\* and without having opened the results file
EndedAtPreCheck(r) ==
  run[r].pc = "done" /\ run[r].handle = "none" /\ ~run[r].fatal

\* this step leaves the artifacts, the Job Errors and the external calls as
\* they are
NothingProcessed ==
  /\ results' = results
  /\ summary' = summary
  /\ jobErrors' = jobErrors
  /\ apiCalls' = apiCalls

C26_HandleClosedAtEnd ==
  \A r \in Runs : run[r].settled => run[r].handle # "open"

\* the row loop of run r takes the record it holds (this step)
TakesRow(r) ==
  /\ run[r].pc = "streaming"
  /\ run[r].rpc = "check"
  /\ job.status \notin {"CANCELLING", "PAUSED"}
  /\ run'[r].rowNumber = run[r].rowNumber + 1 \/ run'[r].pc = "done"

\* the body of the row run r takes raised an exception before the Row
\* Result was written (this step)
RowBodyThrew(r) == TakesRow(r) /\ results' = results

C28_ProgressPerRow ==
  \A r \in Runs :
    (run[r].pc = "streaming" /\ run[r].rpc \in {"check", "idle", "returned"}) =>
      /\ job.rows_processed = run[r].rowNumber
      /\ job.success_count = run[r].successCount
      /\ job.error_count = run[r].errorCount

\* a reply that is not to be retried: a 4xx response, or a 2xx response
\* whose body carries an error
Definitive(reply) ==
  /\ ~reply.network
  /\ \/ reply.status >= 400 /\ reply.status <= 499
     \/ reply.status >= 200 /\ reply.status <= 299 /\ reply.error # NoText

\* the Job Errors of the row include one of this stage
Logged(o, stage) == \E i \in 1..Len(o.errors) : o.errors[i] = stage

\* C29: a quote, start or stop call that returns a 4xx response or a 2xx
\* response with an embedded error is issued exactly once for the row, with
\* no retry and no sleep of the retry loop, and its outcome is recorded for
\* the row at once: the status code and the error in the Row Result, and a
\* Job Error of that stage.
C29_DefinitiveOutcomes ==
  (probe.fn = "row" /\ probe.done /\ ~probe.out.escaped) =>
    LET a == probe.arg
        o == probe.out
        row == o.resultRow
    IN /\ (o.calls.quote > 0 /\ Definitive(a.quote)) =>
            /\ o.calls.quote = 1
            /\ o.retrySleeps = <<>>
            /\ row.quote_status_code = a.quote.status
            /\ ~row.quote_ok /\ row.quote_error # NoText
            /\ Logged(o, "quote")
       /\ (o.calls.start > 0 /\ Definitive(a.start)) =>
            /\ o.calls.start = 1
            /\ o.retrySleeps = <<>>
            /\ row.start_status_code = a.start.status
            /\ ~row.start_ok /\ row.start_error # NoText
            /\ Logged(o, "start")
       /\ (o.calls.stop > 0 /\ Definitive(a.stop)) =>
            /\ o.calls.stop = 1
            /\ o.retrySleeps = <<>>
            /\ row.stop_status_code = a.stop.status
            /\ ~row.stop_ok /\ row.stop_error # NoText
            /\ Logged(o, "stop")

\* a row whose stop call was answered 404, with retries configured
C29_Witness ==
  /\ probe.fn = "row"
  /\ probe.done
  /\ probe.arg.maxAttempts >= 2
  /\ probe.arg.stop.status = 404
  /\ probe.out.issued = <<"quote", "start", "stop">>
  /\ probe.out.resultRow.stop_status_code = 404

\* the error is one the retry predicate lets through: a 5xx status, or no
\* status at all
Retryable(error) == error.status >= 500 \/ error.status = 0

\* the attempt after which retryWithBackoff is to stop: the first one that
\* succeeds, or fails with an error not to be retried, or is the last
StoppingAttempt(outcomes, maxAttempts) ==
  CHOOSE i \in 1..maxAttempts :
    /\ ~outcomes[i].threw \/ ~Retryable(outcomes[i].error) \/ i = maxAttempts
    /\ \A j \in 1..(i - 1) : outcomes[j].threw /\ Retryable(outcomes[j].error)

\* C30: retryWithBackoff invokes fn at most maxAttempts times; after the
\* k-th failed attempt that is retryable and not the last it sleeps exactly
\* backoffMs * 2^(k-1) before attempt k + 1; an error that is not retryable
\* is propagated after its attempt without a sleep; when every attempt
\* fails the error of the final attempt is propagated; the value of the
\* first successful attempt is returned and no further attempt is made.
C30_RetryWithBackoff ==
  (probe.fn = "retry" /\ probe.done) =>
    LET os == probe.arg.outcomes
        n == probe.arg.maxAttempts
        out == probe.out
    IN /\ out.calls <= n
       /\ n >= 1 =>
            LET last == StoppingAttempt(os, n)
            IN /\ out.calls = last
               /\ Len(out.sleeps) = last - 1
               /\ \A k \in 1..(last - 1) :
                    out.sleeps[k] = (IF k = 1 THEN probe.arg.backoffMs
                                     ELSE 2 * out.sleeps[k - 1])
               /\ os[last].threw =>
                    out.threw /\ out.error = os[last].error
               /\ ~os[last].threw =>
                    ~out.threw /\ out.value = os[last].value

\* two retryable failures, then a success on the third and last attempt
C30_Witness ==
  /\ probe.fn = "retry"
  /\ probe.done
  /\ probe.arg.maxAttempts = 3
  /\ probe.arg.backoffMs = 250
  /\ probe.out.calls = 3
  /\ probe.out.sleeps = <<250, 500>>
  /\ ~probe.out.threw

\* the text contains the needle (given in lower case) when compared
\* case-insensitively
ContainsIgnoringCase(text, needle) ==
  \E i \in 1..(Len(text) - Len(needle) + 1) :
    \A k \in 1..Len(needle) : LowerChar(text[i + k - 1]) = needle[k]

\* the rate-limit indicators as the claim lists them
ClaimedIndicators == {RateLimitText, TooManyRequestsText, Text429, InvokedText}

\* the rate-limit indicators of the classification
Indicators == {RateLimitText, TooManyRequestsText, Text429, ServiceInvokedLower}

\* C31 (as stated): an error text is classified as rate-limited iff,
\* compared case-insensitively, it contains "rate limit", "too many
\* requests", "429" or "invoked too many times"; a null or empty error is
\* never rate-limited.
C31_RateLimitAsStated ==
  (probe.fn = "rateLimit" /\ probe.done) =>
    (probe.out.limited <=>
       \E needle \in ClaimedIndicators : ContainsIgnoringCase(probe.arg, needle))

\* C31 (amended): an error text is classified as rate-limited iff, compared
\* case-insensitively, it contains "rate limit", "too many requests", "429"
\* or "service invoked too many times"; a null or empty error is never
\* rate-limited.
C31_RateLimitClassification ==
  (probe.fn = "rateLimit" /\ probe.done) =>
    /\ probe.out.limited <=>
          \E needle \in Indicators : ContainsIgnoringCase(probe.arg, needle)
    /\ probe.arg = NoText => ~probe.out.limited

\* an error text in mixed case holding the vendor phrase and none of the
\* other indicators has been classified as rate-limited
C31_Witness ==
  /\ probe.fn = "rateLimit"
  /\ probe.done
  /\ probe.out.limited
  /\ probe.arg # ToLowerCase(probe.arg)
  /\ ContainsIgnoringCase(probe.arg, ServiceInvokedLower)
  /\ \A needle \in Indicators \ {ServiceInvokedLower} :
        ~ContainsIgnoringCase(probe.arg, needle)

\* the client gets no token: it holds none that is still good and the
\* token request fails or its reply carries none
NoTokenAcquired(cache, reply) ==
  /\ cache = NoCache
  /\ \/ reply.network
     \/ reply.status < 200 \/ reply.status > 299
     \/ ~reply.json
     \/ reply.access_token = NoText

CachedTokenGood(cache, now) ==
  cache.token # NoText /\ cache.tokenExpiresAt - now > 5 * 60 * 1000

\* the token request fails: no response, a response that is not OK, or a
\* body that cannot be read
TokenRequestFails(reply) ==
  reply.network \/ reply.status < 200 \/ reply.status > 299 \/ ~reply.json

\* C33: getToken returns the cached token without a token request iff a
\* token is cached and the current time is more than 5 minutes before its
\* expiry; otherwise it performs exactly one token request and replaces the
\* cached token and expiry; on a failed token request it raises and leaves
\* the previously cached token and expiry unchanged.
C33_TokenCaching ==
  (probe.fn = "token" /\ probe.done) =>
    \A i \in 1..Len(probe.out) :
      LET c == probe.out[i]
          reply == probe.arg[i].reply
          res == c.result
      IN /\ (res.requests = 0) <=> CachedTokenGood(c.before, c.now)
         /\ res.requests = 0 =>
              ~res.threw /\ res.token = c.before.token /\ res.cache = c.before
         /\ res.requests # 0 =>
              /\ res.requests = 1
              /\ res.threw <=> TokenRequestFails(reply)
              /\ res.threw => res.cache = c.before
              /\ ~res.threw =>
                   /\ res.token = reply.access_token
                   /\ res.cache.token = reply.access_token
                   /\ res.cache.tokenExpiresAt > c.now

\* a client whose token was still valid, but for less than 5 minutes, has
\* requested a new one and got a refusal: it keeps the token it had
C33_Witness ==
  /\ probe.fn = "token"
  /\ probe.done
  /\ Len(probe.out) >= 2
  /\ probe.out[2].before.token # NoText
  /\ probe.out[2].now < probe.out[2].before.tokenExpiresAt
  /\ probe.out[2].result.requests = 1
  /\ probe.out[2].result.threw
  /\ probe.out[2].result.cache = probe.out[1].result.cache

\* the reply is a failure of the stop call
StopReplyFails(reply) ==
  reply.network \/ reply.error # NoText \/ reply.status \notin {200, 201, 204}

\* C34 (as stated, for the case the specification names): a row of mode
\* QUOTE_START_STOP can produce more than one Job Error; a row whose start
\* fails and whose stop fails yields both a 'start' and a 'stop' Job Error.
C34_StartAndStopErrors ==
  (/\ probe.fn = "row" /\ probe.done
   /\ probe.arg.mode = "QUOTE_START_STOP"
   /\ probe.out.calls.start > 0
   /\ ~StartReplyOk(probe.arg.start)
   /\ StopReplyFails(probe.arg.stop)) =>
     Logged(probe.out, "start") /\ Logged(probe.out, "stop")

\* C34 (amended): a row produces at most one Job Error, of the first stage
\* that failed: no row yields both a 'start' and a 'stop' Job Error, a
\* 'stop' Job Error is logged only after a start that succeeded, and a
\* 'start' Job Error only for a row whose stop call was never issued.
C34_OneJobErrorPerRow ==
  (probe.fn = "row" /\ probe.done) =>
    /\ Len(probe.out.errors) <= 1
    /\ ~(Logged(probe.out, "start") /\ Logged(probe.out, "stop"))
    /\ Logged(probe.out, "stop") => StartReplyOk(probe.arg.start)
    /\ Logged(probe.out, "start") => probe.out.calls.stop = 0

\* a row whose start failed, with a remote API whose stop would fail as
\* well: the 'start' Job Error is its only one
C34_Witness ==
  /\ probe.fn = "row"
  /\ probe.done
  /\ probe.arg.mode = "QUOTE_START_STOP"
  /\ ~StartReplyOk(probe.arg.start)
  /\ StopReplyFails(probe.arg.stop)
  /\ probe.out.errors = <<"start">>

\* C35: backpressure: the reader does not pull a further record from the
\* source while a row is still being processed, so that the records read
\* but not yet processed (the row queue) stay bounded by a constant that
\* does not depend on the length of the input.
C35_Backpressure ==
  [][\A r \in Runs :
        run[r].processing =>
          /\ run'[r].emitted = run[r].emitted
          /\ Len(run'[r].rowQueue) <= Len(run[r].rowQueue)]_vars

\* C36: terminal statuses are absorbing: once the status of the job is
\* CANCELLED, FAILED or COMPLETED, no step of a pause, resume or cancel
\* request and no step of the worker changes it to another status.
C36_TerminalAbsorbing ==
  [][job.status \in {"CANCELLED", "FAILED", "COMPLETED"} =>
       job'.status = job.status]_vars

\* C37: a control status written by an accepted request is never
\* overwritten by the worker without being acted on: no step replaces
\* CANCELLING by RUNNING or COMPLETED, nor PAUSED by COMPLETED.
C37_ControlStatusKept ==
  [][/\ job.status = "CANCELLING" => job'.status \notin {"RUNNING", "COMPLETED"}
     /\ job.status = "PAUSED" => job'.status # "COMPLETED"]_vars

\* C38: in every progress state persisted to the job store,
\* rate_limited_count <= error_count <= rows_processed, and whenever
\* total_rows_estimated is non-null, rows_processed <= total_rows_estimated
\* (the reported percent progress never exceeds 100).
C38_ProgressConsistent ==
  /\ job.rate_limited_count <= job.error_count
  /\ job.error_count <= job.rows_processed
  /\ job.total_rows_estimated # Null => job.rows_processed <= job.total_rows_estimated

\* C39: the re-entrancy guard of the row loop is released on every exit:
\* whenever no invocation of processNextRow is executing (the row loop of
\* the run holds no record), the flag `processing` is false, so that a
\* later 'data' event restarts the loop and the wait of the 'end' handler
\* ends once the queue is drained.
C39_GuardReleased ==
  \A r \in Runs : run[r].rpc # "check" => ~run[r].processing

\* C40: retryWithBackoff invokes the operation at least once and either
\* returns the value of one of its invocations or propagates an error that
\* one of them raised, for every configured maxAttempts, 0 included.
C40_RetryInvokesOperation ==
  (probe.fn = "retry" /\ probe.done) =>
    LET os == probe.arg.outcomes
        out == probe.out
    IN /\ out.calls >= 1
       /\ out.threw =>
            \E i \in 1..out.calls : os[i].threw /\ out.error = os[i].error
       /\ ~out.threw =>
            \E i \in 1..out.calls : ~os[i].threw /\ out.value = os[i].value

====
